---- MODULE Spec2Model ----
(***************************************************************************)
(* Verification model of the authorization control plane of                *)
(* rosa-regional-platform-api: the DynamoDB-backed entity stores           *)
(* (pkg/authz/store), the cedar-agent backed policy engine adapter         *)
(* (MockAVPClient, pkg/authz/client), the authorizer / management service  *)
(* (pkg/authz/authz.go) and the gating middleware (pkg/middleware).        *)
(*                                                                         *)
(* Every call against DynamoDB, every critical section of the              *)
(* MockAVPClient registry lock and every HTTP call to cedar-agent is one   *)
(* atomic step; a service method is the sequence of the steps it makes,    *)
(* so concurrent requests interleave exactly at the suspension points of   *)
(* the code.                                                               *)
(***************************************************************************)
EXTENDS Naturals, Sequences, FiniteSets, TLC

\* ------------------------------------------------------------------------
\* Bounded input domains
\* ------------------------------------------------------------------------

\* Upper bound on the number of uuid.New() calls in one behaviour.
MaxUuid == 3

\* Account ids (X-Amz-Account-Id).  "00" is the pre-seeded privileged account
\* of the deployment, "11" and "22" are customer accounts.
PrivAccount == "00"
AccountIds == {"00", "11", "22"}

\* Principal ARNs.  They are opaque strings for the stores.
Principals == {"u1", "u2"}

\* Group ids that requests name (path parameter {id}).
GroupIds == {"g1"}

\* Concurrent requests being served.
Procs == {"r1", "r2"}

VARIABLES
    accounts,   \* accounts table        : set of Account items
    admins,     \* admins table          : set of Admin items
    groups,     \* groups table          : set of Group items
    members,    \* group-members table   : set of GroupMember items
    templates,  \* MockAVPClient.templates : storeId -> templateId -> mockTemplate
    policies,   \* MockAVPClient.policies  : storeId -> policyId -> mockPolicy
    agent,      \* cedar-agent: the policy list of the last successful PUT
    uuid,       \* number of uuid.New() calls made so far
    writer,     \* history: template / policy id -> accountId of the request that stored it
    procs       \* per request: the method being executed, its position, locals

vars == <<accounts, admins, groups, members, templates, policies, agent, uuid, writer, procs>>

\* ------------------------------------------------------------------------
\* uuid.New().String()
\* ------------------------------------------------------------------------
NewUuid == "id" \o ToString(uuid + 1)

CanUuid == uuid < MaxUuid

\* ------------------------------------------------------------------------
\* Accounts table (pkg/authz/store/accounts.go), privileged.Checker
\* ------------------------------------------------------------------------

\* store.Account as marshalled by attributevalue.MarshalMap
Account(accountID, policyStoreID, privileged) ==
    [accountId |-> accountID, policyStoreId |-> policyStoreID, privileged |-> privileged]

\* GetItem on the accounts table: the items with that key (none or one)
AccountItems(accountID) == {a \in accounts : a.accountId = accountID}

\* AccountStore.Get: the account or nil (modelled as the set of 0 or 1 items)
AccountStoreGet(accountID) == AccountItems(accountID)

\* Mutant: every account is reported to exist.
AccountStoreExistsAlways(accountID) == TRUE

\* AccountStore.Exists
AccountStoreExists(accountID) == AccountItems(accountID) # {}

\* Mutant: the conditional put always passes its condition.
AccountStoreCreateOkAlways(accountID) == TRUE

\* AccountStore.Create: PutItem with attribute_not_exists(accountId)
AccountStoreCreateOk(accountID) == AccountItems(accountID) = {}

AccountStoreCreate(account) == accounts \cup {account}

\* AccountStore.Delete
AccountStoreDelete(accountID) == {a \in accounts : a.accountId # accountID}

\* Mutant: the flag is read negated.
IsPrivilegedNegated(accountID) ==
    \E a \in AccountItems(accountID) : ~a.privileged

\* Mutant: the privileged flag is read from any account item.
IsPrivilegedAnyItem(accountID) ==
    \E a \in accounts : a.privileged

\* privileged.Checker.IsPrivileged: no item -> false, else its privileged flag
IsPrivileged(accountID) ==
    \E a \in AccountItems(accountID) : a.privileged

\* ------------------------------------------------------------------------
\* Admins table (pkg/authz/store/admins.go)
\* ------------------------------------------------------------------------
Admin(accountID, principalARN) ==
    [accountId |-> accountID, principalArn |-> principalARN]

\* Mutant: the key attributes are swapped in the GetItem.
IsAdminSwappedKey(accountID, principalARN) ==
    \E a \in admins : a.accountId = principalARN /\ a.principalArn = accountID

\* Mutant: the lookup matches the principal under any account.
IsAdminAnyAccount(accountID, principalARN) ==
    \E a \in admins : a.principalArn = principalARN

\* AdminStore.IsAdmin: GetItem by (accountId, principalArn)
IsAdmin(accountID, principalARN) ==
    \E a \in admins : a.accountId = accountID /\ a.principalArn = principalARN

\* AdminStore.Add: conditional PutItem
AdminStoreAddOk(accountID, principalARN) == ~IsAdmin(accountID, principalARN)

AdminStoreAdd(accountID, principalARN) == admins \cup {Admin(accountID, principalARN)}

\* AdminStore.Remove
AdminStoreRemove(accountID, principalARN) ==
    {a \in admins : ~(a.accountId = accountID /\ a.principalArn = principalARN)}

\* AdminStore.List: Query accountId = :aid
AdminStoreList(accountID) == {a \in admins : a.accountId = accountID}

\* ------------------------------------------------------------------------
\* Group-members table (pkg/authz/store/members.go)
\* ------------------------------------------------------------------------

\* fmt.Sprintf("%s#%s", a, b)
HashJoin(a, b) == a \o "#" \o b

\* begins_with(s, prefix)
BeginsWith(s, prefix) ==
    /\ Len(s) >= Len(prefix)
    /\ SubSeq(s, 1, Len(prefix)) = prefix

\* store.GroupMember as built by MemberStore.Add
GroupMember(accountID, groupID, memberARN) ==
    [accountId |-> accountID,
     sk        |-> HashJoin(groupID, memberARN),     \* "groupId#memberArn"
     groupId   |-> groupID,
     memberArn |-> memberARN,
     gsi       |-> HashJoin(accountID, memberARN)]   \* "accountId#memberArn"

\* Mutant: a put of an existing item deletes it.
MemberStoreAddToggle(accountID, groupID, memberARN) ==
    LET item == GroupMember(accountID, groupID, memberARN)
    IN  IF item \in members THEN members \ {item} ELSE members \cup {item}

\* MemberStore.Add: unconditional PutItem, replaces the item with the same
\* primary key (accountId, groupId#memberArn)
MemberStoreAdd(accountID, groupID, memberARN) ==
    LET item == GroupMember(accountID, groupID, memberARN)
    IN  {m \in members : ~(m.accountId = item.accountId /\ m.sk = item.sk)} \cup {item}

\* Mutant: the sort key is built as "memberArn#groupId".
MemberStoreRemoveSwappedKey(accountID, groupID, memberARN) ==
    {m \in members :
        ~(m.accountId = accountID /\ m.sk = HashJoin(memberARN, groupID))}

\* MemberStore.Remove: DeleteItem by primary key
MemberStoreRemove(accountID, groupID, memberARN) ==
    {m \in members :
        ~(m.accountId = accountID /\ m.sk = HashJoin(groupID, memberARN))}

\* MemberStore.ListGroupMembers: Query accountId = :aid AND begins_with(sk, gid#)
ListGroupMembersItems(accountID, groupID) ==
    {m \in members : m.accountId = accountID /\ BeginsWith(m.sk, groupID \o "#")}

\* Mutant: the index is keyed by the member ARN alone.
GetUserGroupsItemsByArn(accountID, memberARN) ==
    {m \in members : m.memberArn = memberARN}

\* MemberStore.GetUserGroups: Query on member-groups-index, gsi = accountId#memberArn
GetUserGroupsItems(accountID, memberARN) ==
    {m \in members : m.gsi = HashJoin(accountID, memberARN)}

GetUserGroups(accountID, memberARN) ==
    {m.groupId : m \in GetUserGroupsItems(accountID, memberARN)}

\* ------------------------------------------------------------------------
\* Groups table (GroupStore)
\* ------------------------------------------------------------------------
Group(accountID, groupID) == [accountId |-> accountID, groupId |-> groupID]

\* GroupStore.List: Query accountId = :aid
GroupStoreList(accountID) == {g \in groups : g.accountId = accountID}

\* ------------------------------------------------------------------------
\* MockAVPClient registry (pkg/authz/client, mock AVP client)
\* ------------------------------------------------------------------------

\* avptypes.EntityIdentifier
Entity(entityType, entityID) == [type |-> entityType, id |-> entityID]

PrincipalEntity(arn) == Entity("ROSA::Principal", arn)
GroupEntity(groupID) == Entity("ROSA::Group", groupID)

\* Cedar source text of a template: its effect and its principal scope.  The
\* scope is the placeholder ?principal until the template is linked, an
\* entity once it is linked, or the unconstrained "principal".
Cedar(effect, scope) == [effect |-> effect, principal |-> scope]

Placeholder == Entity("?principal", "")
AnyPrincipal == Entity("principal", "")

PermitText == Cedar("permit", Placeholder)
ForbidText == Cedar("forbid", Placeholder)
CedarTexts == {PermitText, ForbidText}

\* resolvePrincipal: strings.ReplaceAll(template, "?principal",
\* `principal in Type::"id"`)
resolvePrincipal(cedarTemplate, principal) ==
    IF cedarTemplate.principal = Placeholder
    THEN [cedarTemplate EXCEPT !.principal = principal]
    ELSE cedarTemplate

mockTemplate(statement) == [statement |-> statement]

mockPolicy(cedarText, templateID, principal) ==
    [cedarText |-> cedarText, templateID |-> templateID, principal |-> principal]

\* m.templates[storeID] / m.policies[storeID]: a missing store reads as the
\* nil map, which has no entries
StoreTemplates(storeID) ==
    IF storeID \in DOMAIN templates THEN templates[storeID] ELSE <<>>

StorePolicies(storeID) ==
    IF storeID \in DOMAIN policies THEN policies[storeID] ELSE <<>>

\* m.templates[storeID][templateID] with the ", ok" idiom
HasTemplate(storeID, templateID) == templateID \in DOMAIN StoreTemplates(storeID)

\* map assignment m[k] = v on a map value
MapPut(m, k, v) == [x \in DOMAIN m \cup {k} |-> IF x = k THEN v ELSE m[x]]

\* delete(m, k)
MapDelete(m, k) == [x \in DOMAIN m \ {k} |-> m[x]]

\* The body of syncPolicies' PUT /v1/policies built under the read lock: one
\* entry per statement of every policy registered for the store.
PolicyList(storeID) ==
    {[id |-> <<pid, 0>>, content |-> StorePolicies(storeID)[pid].cedarText] :
        pid \in DOMAIN StorePolicies(storeID)}

\* Mutant: the filter compares the policy id with the template id.
ListPoliciesByPolicyId(storeID, templateID) ==
    {pid \in DOMAIN StorePolicies(storeID) : pid = templateID}

\* MockAVPClient.ListPolicies with Filter{PolicyTemplateId, TemplateLinked}
ListPoliciesByTemplate(storeID, templateID) ==
    {pid \in DOMAIN StorePolicies(storeID) :
        /\ StorePolicies(storeID)[pid].templateID = templateID
        /\ StorePolicies(storeID)[pid].templateID # ""}

\* ------------------------------------------------------------------------
\* cedar-agent: POST /v1/is_authorized evaluated on its current policy list
\* ------------------------------------------------------------------------

\* authorizerImpl.buildAVPRequest: the principal, and the entity list with
\* the principal first and one ROSA::Group item per membership.  The items
\* carry an identifier only.
buildAVPRequest(callerARN, groupIDs) ==
    [principal |-> PrincipalEntity(callerARN),
     entities  |-> {PrincipalEntity(callerARN)} \cup {GroupEntity(g) : g \in groupIDs}]

\* Mutant: the principal entity is emitted without parents.
buildCedarAgentRequestNoParents(params) ==
    LET groupUIDs == {e \in params.entities : e.type \in {"ROSA::Group", "Group"}}
    IN  [principal |-> params.principal,
         entities  |-> {[uid |-> g, parents |-> {}] : g \in groupUIDs}
                       \cup {[uid |-> params.principal, parents |-> {}]}]

\* MockAVPClient.buildCedarAgentRequest: one entity per group item of the
\* list, and the principal entity with the groups as parents when there is
\* at least one group.  (The resource entity has no part in the principal
\* scope and is left out.)
buildCedarAgentRequest(params) ==
    LET groupUIDs == {e \in params.entities : e.type \in {"ROSA::Group", "Group"}}
    IN  [principal |-> params.principal,
         entities  |-> {[uid |-> g, parents |-> {}] : g \in groupUIDs}
                       \cup (IF groupUIDs # {}
                             THEN {[uid |-> params.principal, parents |-> groupUIDs]}
                             ELSE {})]

\* the body of POST /v1/is_authorized for a caller and the memberships read
CedarQuery(callerARN, groupIDs) ==
    buildCedarAgentRequest(buildAVPRequest(callerARN, groupIDs))

\* "principal in E" for a linked statement: E is the principal itself or an
\* ancestor of it in the entities of the request
ScopeMatches(content, query) ==
    \/ content.principal = AnyPrincipal
    \/ content.principal = query.principal
    \/ \E e \in query.entities :
            e.uid = query.principal /\ content.principal \in e.parents

\* Cedar: allow iff some permit applies and no forbid applies
CedarDecision(policyList, query) ==
    /\ \E e \in policyList : e.content.effect = "permit" /\ ScopeMatches(e.content, query)
    /\ ~\E e \in policyList : e.content.effect = "forbid" /\ ScopeMatches(e.content, query)

\* ------------------------------------------------------------------------
\* Requests in flight
\* ------------------------------------------------------------------------

\* The locals of a request: the method, the position in it, its arguments,
\* its local variables and, once pc = "done", what it returned.
Req(op, pc, accountID) ==
    [op |-> op, pc |-> pc, accountId |-> accountID, callerArn |-> "",
     privileged |-> FALSE, storeId |-> "", policyId |-> "", newId |-> "",
     target |-> Placeholder, statement |-> PermitText, cedarText |-> PermitText,
     groups |-> {}, snapshot |-> {}, next |-> "done", syncErr |-> FALSE,
     result |-> {}, allowed |-> FALSE, err |-> "",
     \* the HTTP request the method serves: route and method, the id named in
     \* its body or path, the value stored under ContextKeyPrivileged and the
     \* error response a gate or handler wrote
     route |-> "", method |-> "", arg |-> "", ctxPrivileged |-> "unset", status |-> "",
     \* history: the checker calls made for the request, whether the lookup of
     \* CheckPrivileged failed, whether a privileged lookup made for it found
     \* the record privileged, the X-Amz-Account-Id header, and whether the
     \* engine refused DeletePolicyStore
     calls |-> {}, annErr |-> FALSE, sawPrivileged |-> FALSE, hdrAccount |-> "",
     engineErr |-> FALSE]

Idle == Req("idle", "idle", "")

At(p, op, pc) == procs[p].op = op /\ procs[p].pc = pc

Goto(p, r) == procs' = [procs EXCEPT ![p] = r]

\* return from the method with (allowed, err)
Return(r, allowed, err) == [r EXCEPT !.pc = "done", !.allowed = allowed, !.err = err]

\* The ids uuid.New() has issued so far; requests name policies and
\* attachments by such ids.
IssuedIds == {"id" \o ToString(i) : i \in 1..uuid} \cup DOMAIN writer

\* The response has been written: the goroutine ends.
Finish(p) ==
    /\ procs[p].pc = "done"
    /\ Goto(p, Idle)
    /\ UNCHANGED <<accounts, admins, groups, members, templates, policies, agent, uuid, writer>>

\* ------------------------------------------------------------------------
\* MockAVPClient.syncPolicies, called by IsAuthorized, CreatePolicy,
\* DeletePolicy and UpdatePolicyTemplate.  procs[p].next is where the caller
\* continues.
\* ------------------------------------------------------------------------

\* m.mu.RLock() ... m.mu.RUnlock(): snapshot of the store's resolved policies
SyncSnapshot(p) ==
    /\ procs[p].pc = "syncSnapshot"
    /\ Goto(p, [procs[p] EXCEPT !.pc = "syncPut", !.snapshot = PolicyList(procs[p].storeId)])
    /\ UNCHANGED <<accounts, admins, groups, members, templates, policies, agent, uuid, writer>>

\* PUT /v1/policies answered 200: cedar-agent now holds the snapshot
SyncPutOk(p) ==
    /\ procs[p].pc = "syncPut"
    /\ agent' = procs[p].snapshot
    /\ Goto(p, [procs[p] EXCEPT !.pc = procs[p].next, !.snapshot = {}])
    /\ UNCHANGED <<accounts, admins, groups, members, templates, policies, uuid, writer>>

\* PUT /v1/policies failed: every caller only logs a warning and goes on
SyncPutFail(p) ==
    /\ procs[p].pc = "syncPut"
    /\ Goto(p, [procs[p] EXCEPT !.pc = procs[p].next, !.syncErr = TRUE, !.snapshot = {}])
    /\ UNCHANGED <<accounts, admins, groups, members, templates, policies, agent, uuid, writer>>

\* ------------------------------------------------------------------------
\* authorizerImpl.Authorize
\* ------------------------------------------------------------------------
AuthorizeStart(p, accountID, callerARN) ==
    /\ procs[p] = Idle
    /\ Goto(p, [Req("Authorize", "isPrivileged", accountID) EXCEPT
                    !.callerArn = callerARN, !.next = "query"])
    /\ UNCHANGED <<accounts, admins, groups, members, templates, policies, agent, uuid, writer>>

\* a.IsPrivileged(ctx, req.AccountID)
AuthorizeIsPrivileged(p) ==
    /\ At(p, "Authorize", "isPrivileged")
    /\ \/ Goto(p, Return(procs[p], FALSE, "dynamodb error"))
       \/ IF IsPrivileged(procs[p].accountId)
          THEN Goto(p, Return(procs[p], TRUE, ""))
          ELSE Goto(p, [procs[p] EXCEPT !.pc = "getAccount"])
    /\ UNCHANGED <<accounts, admins, groups, members, templates, policies, agent, uuid, writer>>

\* a.accountStore.Get(ctx, req.AccountID)
AuthorizeGetAccount(p) ==
    /\ At(p, "Authorize", "getAccount")
    /\ \/ Goto(p, Return(procs[p], FALSE, "failed to get account"))
       \/ /\ AccountStoreGet(procs[p].accountId) = {}
          /\ Goto(p, Return(procs[p], FALSE, "account not provisioned"))
       \/ \E account \in AccountStoreGet(procs[p].accountId) :
            Goto(p, [procs[p] EXCEPT !.pc = "isAdmin", !.storeId = account.policyStoreId])
    /\ UNCHANGED <<accounts, admins, groups, members, templates, policies, agent, uuid, writer>>

\* Mutant: the admin step allows every caller.
AuthorizeIsAdminAllowsAll(p) ==
    /\ At(p, "Authorize", "isAdmin")
    /\ Goto(p, Return(procs[p], TRUE, ""))
    /\ UNCHANGED <<accounts, admins, groups, members, templates, policies, agent, uuid, writer>>

\* Mutant: the admin step does not end the pipeline.
AuthorizeIsAdminGoesOn(p) ==
    /\ At(p, "Authorize", "isAdmin")
    /\ Goto(p, [procs[p] EXCEPT !.pc = "getUserGroups"])
    /\ UNCHANGED <<accounts, admins, groups, members, templates, policies, agent, uuid, writer>>

\* a.IsAdmin(ctx, req.AccountID, req.CallerARN)
AuthorizeIsAdmin(p) ==
    /\ At(p, "Authorize", "isAdmin")
    /\ \/ Goto(p, Return(procs[p], FALSE, "failed to check admin status"))
       \/ IF IsAdmin(procs[p].accountId, procs[p].callerArn)
          THEN Goto(p, Return(procs[p], TRUE, ""))
          ELSE Goto(p, [procs[p] EXCEPT !.pc = "getUserGroups"])
    /\ UNCHANGED <<accounts, admins, groups, members, templates, policies, agent, uuid, writer>>

\* a.memberStore.GetUserGroups, then buildAVPRequest and the call of
\* avpClient.IsAuthorized, which starts with syncPolicies
AuthorizeGetUserGroups(p) ==
    /\ At(p, "Authorize", "getUserGroups")
    /\ \/ Goto(p, Return(procs[p], FALSE, "failed to get user groups"))
       \/ Goto(p, [procs[p] EXCEPT !.pc = "syncSnapshot",
                      !.groups = GetUserGroups(procs[p].accountId, procs[p].callerArn)])
    /\ UNCHANGED <<accounts, admins, groups, members, templates, policies, agent, uuid, writer>>

\* MockAVPClient.IsAuthorized after the sync: POST /v1/is_authorized
IsAuthorizedQuery(p) ==
    /\ At(p, "Authorize", "query")
    /\ \/ Goto(p, Return(procs[p], FALSE, "authorization check failed"))
       \/ Goto(p, Return(procs[p],
                         CedarDecision(agent, CedarQuery(procs[p].callerArn, procs[p].groups)),
                         ""))
    /\ UNCHANGED <<accounts, admins, groups, members, templates, policies, agent, uuid, writer>>

\* ------------------------------------------------------------------------
\* authorizerImpl.EnableAccount
\* ------------------------------------------------------------------------
\* Mutant: the policy store is created for privileged accounts too.
EnableAccountStartAlwaysStore(p, accountID, isPrivileged) ==
    /\ procs[p] = Idle
    /\ Goto(p, [Req("EnableAccount", "createPolicyStore", accountID)
                    EXCEPT !.privileged = isPrivileged])
    /\ UNCHANGED <<accounts, admins, groups, members, templates, policies, agent, uuid, writer>>

EnableAccountStart(p, accountID, isPrivileged) ==
    /\ procs[p] = Idle
    /\ Goto(p, [Req("EnableAccount", IF isPrivileged THEN "createAccount" ELSE "createPolicyStore",
                    accountID) EXCEPT !.privileged = isPrivileged])
    /\ UNCHANGED <<accounts, admins, groups, members, templates, policies, agent, uuid, writer>>

\* a.avpClient.CreatePolicyStore; MockAVPClient.CreatePolicyStore registers
\* the two empty maps under a fresh uuid
EnableAccountCreatePolicyStore(p) ==
    /\ At(p, "EnableAccount", "createPolicyStore")
    /\ \/ /\ Goto(p, Return(procs[p], FALSE, "failed to create policy store"))
          /\ UNCHANGED <<templates, policies, uuid>>
       \/ /\ CanUuid
          /\ uuid' = uuid + 1
          /\ templates' = MapPut(templates, NewUuid, <<>>)
          /\ policies' = MapPut(policies, NewUuid, <<>>)
          /\ Goto(p, [procs[p] EXCEPT !.pc = "putSchema", !.storeId = NewUuid])
    /\ UNCHANGED <<accounts, admins, groups, members, agent, writer>>

\* a.avpClient.PutSchema
EnableAccountPutSchema(p) ==
    /\ At(p, "EnableAccount", "putSchema")
    /\ \/ Goto(p, [procs[p] EXCEPT !.pc = "createAccount"])
       \/ Goto(p, [procs[p] EXCEPT !.pc = "cleanup",
                                   !.err = "failed to set policy store schema"])
    /\ UNCHANGED <<accounts, admins, groups, members, templates, policies, agent, uuid, writer>>

\* a.accountStore.Create: conditional put of the account record
EnableAccountCreateAccount(p) ==
    /\ At(p, "EnableAccount", "createAccount")
    /\ LET r == procs[p]
           fail(err) == IF r.storeId # ""
                        THEN [r EXCEPT !.pc = "cleanup", !.err = err]
                        ELSE Return(r, FALSE, err)
       IN  \/ /\ Goto(p, fail("failed to create account"))
              /\ UNCHANGED accounts
           \/ /\ ~AccountStoreCreateOk(r.accountId)
              /\ Goto(p, fail("account already exists"))
              /\ UNCHANGED accounts
           \/ /\ AccountStoreCreateOk(r.accountId)
              /\ accounts' = AccountStoreCreate(Account(r.accountId, r.storeId, r.privileged))
              /\ Goto(p, Return(r, TRUE, ""))
    /\ UNCHANGED <<admins, groups, members, templates, policies, agent, uuid, writer>>

\* Mutant: the error of the rollback replaces the error of the failed step.
EnableAccountCleanupReturnsEngineError(p) ==
    /\ At(p, "EnableAccount", "cleanup")
    /\ \/ /\ templates' = MapDelete(templates, procs[p].storeId)
          /\ policies' = MapDelete(policies, procs[p].storeId)
          /\ Goto(p, Return(procs[p], FALSE, procs[p].err))
       \/ /\ UNCHANGED <<templates, policies>>
          /\ Goto(p, Return([procs[p] EXCEPT !.engineErr = TRUE], FALSE,
                            "failed to delete policy store"))
    /\ UNCHANGED <<accounts, admins, groups, members, agent, uuid, writer>>

\* "_, _ = a.avpClient.DeletePolicyStore(...)": best-effort rollback, the
\* error of the failed step is what is returned
EnableAccountCleanup(p) ==
    /\ At(p, "EnableAccount", "cleanup")
    /\ \/ /\ templates' = MapDelete(templates, procs[p].storeId)
          /\ policies' = MapDelete(policies, procs[p].storeId)
          /\ Goto(p, Return(procs[p], FALSE, procs[p].err))
       \/ /\ UNCHANGED <<templates, policies>>
          /\ Goto(p, Return([procs[p] EXCEPT !.engineErr = TRUE], FALSE, procs[p].err))
    /\ UNCHANGED <<accounts, admins, groups, members, agent, uuid, writer>>

\* ------------------------------------------------------------------------
\* authorizerImpl.DisableAccount
\* ------------------------------------------------------------------------
DisableAccountStart(p, accountID) ==
    /\ procs[p] = Idle
    /\ Goto(p, Req("DisableAccount", "getAccount", accountID))
    /\ UNCHANGED <<accounts, admins, groups, members, templates, policies, agent, uuid, writer>>

\* a.accountStore.Get
DisableAccountGet(p) ==
    /\ At(p, "DisableAccount", "getAccount")
    /\ \/ Goto(p, Return(procs[p], FALSE, "failed to get account"))
       \/ /\ AccountStoreGet(procs[p].accountId) = {}
          /\ Goto(p, Return(procs[p], FALSE, "account not found"))
       \/ \E account \in AccountStoreGet(procs[p].accountId) :
            Goto(p, [procs[p] EXCEPT
                        !.storeId = account.policyStoreId,
                        !.pc = IF account.policyStoreId # "" THEN "deletePolicyStore"
                                                             ELSE "deleteAccount"])
    /\ UNCHANGED <<accounts, admins, groups, members, templates, policies, agent, uuid, writer>>

\* Mutant: the error of the engine is returned.
DisableAccountDeletePolicyStoreStrict(p) ==
    /\ At(p, "DisableAccount", "deletePolicyStore")
    /\ \/ /\ templates' = MapDelete(templates, procs[p].storeId)
          /\ policies' = MapDelete(policies, procs[p].storeId)
          /\ Goto(p, [procs[p] EXCEPT !.pc = "deleteAccount"])
       \/ /\ UNCHANGED <<templates, policies>>
          /\ Goto(p, Return([procs[p] EXCEPT !.engineErr = TRUE], FALSE,
                            "failed to delete policy store"))
    /\ UNCHANGED <<accounts, admins, groups, members, agent, uuid, writer>>

\* a.avpClient.DeletePolicyStore; an error is only logged
DisableAccountDeletePolicyStore(p) ==
    /\ At(p, "DisableAccount", "deletePolicyStore")
    /\ \/ /\ templates' = MapDelete(templates, procs[p].storeId)
          /\ policies' = MapDelete(policies, procs[p].storeId)
          /\ Goto(p, [procs[p] EXCEPT !.pc = "deleteAccount"])
       \/ /\ UNCHANGED <<templates, policies>>
          /\ Goto(p, [procs[p] EXCEPT !.pc = "deleteAccount", !.engineErr = TRUE])
    /\ UNCHANGED <<accounts, admins, groups, members, agent, uuid, writer>>

\* a.accountStore.Delete
DisableAccountDelete(p) ==
    /\ At(p, "DisableAccount", "deleteAccount")
    /\ \/ /\ accounts' = AccountStoreDelete(procs[p].accountId)
          /\ Goto(p, Return(procs[p], TRUE, ""))
       \/ /\ UNCHANGED accounts
          /\ Goto(p, Return(procs[p], FALSE, "failed to delete account"))
    /\ UNCHANGED <<admins, groups, members, templates, policies, agent, uuid, writer>>

\* ------------------------------------------------------------------------
\* Policy templates and attachments (authorizerImpl over MockAVPClient)
\* ------------------------------------------------------------------------

\* where each method continues once the policy store id is resolved
AfterResolve(op) ==
    CASE op = "CreatePolicy" -> "createTemplate"
      [] op = "UpdatePolicy" -> "updateTemplate"
      [] op = "DeletePolicy" -> "listAttachments"
      [] op = "AttachPolicy" -> "attachCheck"
      [] op = "DetachPolicy" -> "detachDelete"
      [] op = "ListPolicies" -> "listTemplates"
      [] op = "ListAttachments" -> "listPolicies"
      [] op = "GetPolicy" -> "getTemplate"

\* a.getAccountPolicyStoreID(ctx, accountID)
ResolveStore(p) ==
    /\ procs[p].pc = "resolve"
    /\ \/ Goto(p, Return(procs[p], FALSE, "failed to get account"))
       \/ /\ AccountStoreGet(procs[p].accountId) = {}
          /\ Goto(p, Return(procs[p], FALSE, "account not found"))
       \/ \E account \in AccountStoreGet(procs[p].accountId) :
            IF account.policyStoreId = ""
            THEN Goto(p, Return(procs[p], FALSE, "account has no policy store"))
            ELSE Goto(p, [procs[p] EXCEPT !.storeId = account.policyStoreId,
                                          !.pc = AfterResolve(procs[p].op)])
    /\ UNCHANGED <<accounts, admins, groups, members, templates, policies, agent, uuid, writer>>

\* authorizerImpl.CreatePolicy
CreatePolicyStart(p, accountID, cedarPolicy) ==
    /\ procs[p] = Idle
    /\ Goto(p, [Req("CreatePolicy", "resolve", accountID) EXCEPT !.statement = cedarPolicy])
    /\ UNCHANGED <<accounts, admins, groups, members, templates, policies, agent, uuid, writer>>

\* MockAVPClient.CreatePolicyTemplate: one critical section
CreatePolicyTemplate(p) ==
    /\ At(p, "CreatePolicy", "createTemplate")
    /\ CanUuid
    /\ uuid' = uuid + 1
    /\ templates' = MapPut(templates, procs[p].storeId,
                           MapPut(StoreTemplates(procs[p].storeId), NewUuid,
                                  mockTemplate(procs[p].statement)))
    /\ writer' = MapPut(writer, NewUuid, procs[p].accountId)
    /\ Goto(p, Return([procs[p] EXCEPT !.newId = NewUuid], TRUE, ""))
    /\ UNCHANGED <<accounts, admins, groups, members, policies, agent>>

\* authorizerImpl.AttachPolicy
AttachPolicyStart(p, accountID, policyID, target) ==
    /\ procs[p] = Idle
    /\ Goto(p, [Req("AttachPolicy", "resolve", accountID) EXCEPT
                    !.policyId = policyID, !.target = target])
    /\ UNCHANGED <<accounts, admins, groups, members, templates, policies, agent, uuid, writer>>

\* MockAVPClient.CreatePolicy, first part: uuid.New(), then under RLock the
\* lookup of the template; the statement is resolved from what was read
CreatePolicyCheckTemplate(p) ==
    /\ At(p, "AttachPolicy", "attachCheck")
    /\ CanUuid
    /\ uuid' = uuid + 1
    /\ IF HasTemplate(procs[p].storeId, procs[p].policyId)
       THEN Goto(p, [procs[p] EXCEPT
                        !.pc = "attachWrite", !.newId = NewUuid,
                        !.cedarText = resolvePrincipal(
                            StoreTemplates(procs[p].storeId)[procs[p].policyId].statement,
                            procs[p].target)])
       ELSE Goto(p, Return(procs[p], FALSE, "failed to create template-linked policy"))
    /\ UNCHANGED <<accounts, admins, groups, members, templates, policies, agent, writer>>

\* MockAVPClient.CreatePolicy, second part: under Lock the policy is stored,
\* then syncPolicies
CreatePolicyWrite(p) ==
    /\ At(p, "AttachPolicy", "attachWrite")
    /\ policies' = MapPut(policies, procs[p].storeId,
                          MapPut(StorePolicies(procs[p].storeId), procs[p].newId,
                                 mockPolicy(procs[p].cedarText, procs[p].policyId,
                                            procs[p].target)))
    /\ writer' = MapPut(writer, procs[p].newId, procs[p].accountId)
    /\ Goto(p, [procs[p] EXCEPT !.pc = "syncSnapshot", !.next = "done", !.allowed = TRUE])
    /\ UNCHANGED <<accounts, admins, groups, members, templates, agent, uuid>>

\* authorizerImpl.UpdatePolicy (the policy text is not blank)
UpdatePolicyStart(p, accountID, policyID, cedarPolicy) ==
    /\ procs[p] = Idle
    /\ Goto(p, [Req("UpdatePolicy", "resolve", accountID) EXCEPT
                    !.policyId = policyID, !.statement = cedarPolicy])
    /\ UNCHANGED <<accounts, admins, groups, members, templates, policies, agent, uuid, writer>>

\* m.mu as a request holds it at its position.  UpdatePolicyTemplate is
\* inside its critical section at "updateTemplateLocked"; every other
\* critical section is entered and left within one step.
HoldingDuringPut(p) ==
    IF procs[p].pc = "updateTemplateLocked" THEN "W"
    ELSE IF procs[p].pc = "syncPut" THEN "R" ELSE ""

Holding(p) ==
    IF procs[p].pc = "updateTemplateLocked" THEN "W" ELSE ""

\* m.mu.Lock() of UpdatePolicyTemplate: granted when no other request holds
\* the lock in any mode
UpdatePolicyTemplateLock(p) ==
    /\ At(p, "UpdatePolicy", "updateTemplate")
    /\ \A q \in Procs \ {p} : Holding(q) = ""
    /\ Goto(p, [procs[p] EXCEPT !.pc = "updateTemplateLocked"])
    /\ UNCHANGED <<accounts, admins, groups, members, templates, policies, agent, uuid, writer>>

\* MockAVPClient.UpdatePolicyTemplate: under Lock the statement of the
\* template is replaced and every policy linked to it is resolved again,
\* then syncPolicies
UpdatePolicyTemplate(p) ==
    /\ procs[p].op = "UpdatePolicy"
    /\ procs[p].pc \in {"updateTemplate", "updateTemplateLocked"}
    /\ LET r == procs[p]
           linked == {pid \in DOMAIN StorePolicies(r.storeId) :
                        StorePolicies(r.storeId)[pid].templateID = r.policyId}
       IN  IF ~HasTemplate(r.storeId, r.policyId)
           THEN /\ Goto(p, Return(r, FALSE, "failed to update policy template"))
                /\ UNCHANGED <<templates, policies>>
           ELSE /\ templates' = MapPut(templates, r.storeId,
                                       MapPut(StoreTemplates(r.storeId), r.policyId,
                                              mockTemplate(r.statement)))
                /\ policies' =
                      IF linked = {} THEN policies
                      ELSE MapPut(policies, r.storeId,
                                  [pid \in DOMAIN StorePolicies(r.storeId) |->
                                      IF pid \in linked
                                      THEN [StorePolicies(r.storeId)[pid] EXCEPT
                                               !.cedarText = resolvePrincipal(
                                                   r.statement,
                                                   StorePolicies(r.storeId)[pid].principal)]
                                      ELSE StorePolicies(r.storeId)[pid]])
                /\ Goto(p, [r EXCEPT !.pc = "syncSnapshot", !.next = "done", !.allowed = TRUE])
    /\ UNCHANGED <<accounts, admins, groups, members, agent, uuid, writer>>

\* authorizerImpl.GetPolicy
GetPolicyStart(p, accountID, policyID) ==
    /\ procs[p] = Idle
    /\ Goto(p, [Req("GetPolicy", "resolve", accountID) EXCEPT !.policyId = policyID])
    /\ UNCHANGED <<accounts, admins, groups, members, templates, policies, agent, uuid, writer>>

\* MockAVPClient.GetPolicyTemplate, first part: RLock, the lookup of the
\* *mockTemplate in the registry, RUnlock
GetPolicyTemplate(p) ==
    /\ At(p, "GetPolicy", "getTemplate")
    /\ \A q \in Procs \ {p} : Holding(q) # "W"
    /\ IF HasTemplate(procs[p].storeId, procs[p].policyId)
       THEN Goto(p, [procs[p] EXCEPT !.pc = "readTemplate"])
       ELSE Goto(p, Return(procs[p], FALSE, "failed to get policy template"))
    /\ UNCHANGED <<accounts, admins, groups, members, templates, policies, agent, uuid, writer>>

\* MockAVPClient.GetPolicyTemplate, second part: tmpl.statement is read
\* through the pointer after RUnlock.  A request inside the critical section
\* of UpdatePolicyTemplate for the same template is assigning the field: the
\* unsynchronized read yields the old or the new statement.
GetPolicyTemplateRead(p) ==
    /\ At(p, "GetPolicy", "readTemplate")
    /\ \E text \in {StoreTemplates(procs[p].storeId)[procs[p].policyId].statement}
                  \cup {procs[q].statement : q \in
                            {x \in Procs : /\ Holding(x) = "W"
                                          /\ procs[x].storeId = procs[p].storeId
                                          /\ procs[x].policyId = procs[p].policyId}} :
            Goto(p, Return([procs[p] EXCEPT !.cedarText = text], TRUE, ""))
    /\ UNCHANGED <<accounts, admins, groups, members, templates, policies, agent, uuid, writer>>

\* authorizerImpl.DetachPolicy
DetachPolicyStart(p, accountID, attachmentID) ==
    /\ procs[p] = Idle
    /\ Goto(p, [Req("DetachPolicy", "resolve", accountID) EXCEPT !.policyId = attachmentID])
    /\ UNCHANGED <<accounts, admins, groups, members, templates, policies, agent, uuid, writer>>

\* MockAVPClient.DeletePolicy: under Lock the policy is removed if the store
\* is registered, then syncPolicies
DeletePolicyEntry(p) ==
    /\ At(p, "DetachPolicy", "detachDelete")
    /\ policies' = IF procs[p].storeId \in DOMAIN policies
                   THEN MapPut(policies, procs[p].storeId,
                               MapDelete(policies[procs[p].storeId], procs[p].policyId))
                   ELSE policies
    /\ Goto(p, [procs[p] EXCEPT !.pc = "syncSnapshot", !.next = "done", !.allowed = TRUE])
    /\ UNCHANGED <<accounts, admins, groups, members, templates, agent, uuid, writer>>

\* authorizerImpl.DeletePolicy
DeletePolicyStart(p, accountID, policyID) ==
    /\ procs[p] = Idle
    /\ Goto(p, [Req("DeletePolicy", "resolve", accountID) EXCEPT !.policyId = policyID])
    /\ UNCHANGED <<accounts, admins, groups, members, templates, policies, agent, uuid, writer>>

\* a.avpClient.ListPolicies with the template filter, and the refusal when
\* the list is not empty
DeletePolicyListAttachments(p) ==
    /\ At(p, "DeletePolicy", "listAttachments")
    /\ IF ListPoliciesByTemplate(procs[p].storeId, procs[p].policyId) # {}
       THEN Goto(p, Return(procs[p], FALSE, "cannot delete policy with existing attachments"))
       ELSE Goto(p, [procs[p] EXCEPT !.pc = "deleteTemplate"])
    /\ UNCHANGED <<accounts, admins, groups, members, templates, policies, agent, uuid, writer>>

\* MockAVPClient.DeletePolicyTemplate: under Lock
DeletePolicyTemplate(p) ==
    /\ At(p, "DeletePolicy", "deleteTemplate")
    /\ templates' = IF procs[p].storeId \in DOMAIN templates
                    THEN MapPut(templates, procs[p].storeId,
                                MapDelete(templates[procs[p].storeId], procs[p].policyId))
                    ELSE templates
    /\ Goto(p, Return(procs[p], TRUE, ""))
    /\ UNCHANGED <<accounts, admins, groups, members, policies, agent, uuid, writer>>

\* ------------------------------------------------------------------------
\* Admins, groups and members: one store call each
\* ------------------------------------------------------------------------

\* authorizerImpl.AddAdmin -> AdminStore.Add (conditional put)
AddAdmin(accountID, principalARN) ==
    /\ admins' = IF AdminStoreAddOk(accountID, principalARN)
                 THEN AdminStoreAdd(accountID, principalARN)
                 ELSE admins
    /\ UNCHANGED <<accounts, groups, members, templates, policies, agent, uuid, writer, procs>>

\* authorizerImpl.RemoveAdmin -> AdminStore.Remove
RemoveAdmin(accountID, principalARN) ==
    /\ admins' = AdminStoreRemove(accountID, principalARN)
    /\ UNCHANGED <<accounts, groups, members, templates, policies, agent, uuid, writer, procs>>

\* authorizerImpl.CreateGroup -> GroupStore.Create: the id is a fresh uuid
CreateGroup(accountID) ==
    /\ CanUuid
    /\ uuid' = uuid + 1
    /\ groups' = groups \cup {Group(accountID, NewUuid)}
    /\ UNCHANGED <<accounts, admins, members, templates, policies, agent, writer, procs>>

\* authorizerImpl.AddGroupMember -> MemberStore.Add
AddGroupMember(accountID, groupID, memberARN) ==
    /\ members' = MemberStoreAdd(accountID, groupID, memberARN)
    /\ UNCHANGED <<accounts, admins, groups, templates, policies, agent, uuid, writer, procs>>

\* authorizerImpl.RemoveGroupMember -> MemberStore.Remove
RemoveGroupMember(accountID, groupID, memberARN) ==
    /\ members' = MemberStoreRemove(accountID, groupID, memberARN)
    /\ UNCHANGED <<accounts, admins, groups, templates, policies, agent, uuid, writer, procs>>

\* ------------------------------------------------------------------------
\* authorizerImpl.DeleteGroup: the members first, then the group
\* ------------------------------------------------------------------------

\* Mutant: the group is deleted without removing the members listed.
DeleteGroupSkipsMembers(p, accountID, groupID) ==
    /\ procs[p] = Idle
    /\ LET listed == {m.memberArn : m \in ListGroupMembersItems(accountID, groupID)}
       IN  Goto(p, [Req("DeleteGroup", "deleteGroup", accountID) EXCEPT
                       !.arg = groupID, !.snapshot = listed, !.result = listed])
    /\ UNCHANGED <<accounts, admins, groups, members, templates, policies, agent, uuid, writer>>

\* DeleteGroup calls MemberStore.RemoveAllGroupMembers, which starts with
\* ListGroupMembers: snapshot keeps the member ARNs of the rows found, result
\* those the loop has still to remove
DeleteGroup(p, accountID, groupID) ==
    /\ procs[p] = Idle
    /\ \/ Goto(p, Return([Req("DeleteGroup", "listMembers", accountID) EXCEPT !.arg = groupID],
                         FALSE, "failed to list group members"))
       \/ LET listed == {m.memberArn : m \in ListGroupMembersItems(accountID, groupID)}
          IN  Goto(p, [Req("DeleteGroup", "removeMembers", accountID) EXCEPT
                          !.arg = groupID, !.snapshot = listed, !.result = listed])
    /\ UNCHANGED <<accounts, admins, groups, members, templates, policies, agent, uuid, writer>>

\* Mutant: the loop ends after the first member.
RemoveAllGroupMembersFirstOnly(p) ==
    /\ At(p, "DeleteGroup", "removeMembers")
    /\ IF procs[p].result = {}
       THEN /\ Goto(p, [procs[p] EXCEPT !.pc = "deleteGroup"])
            /\ UNCHANGED members
       ELSE \E m \in procs[p].result :
              /\ members' = MemberStoreRemove(procs[p].accountId, procs[p].arg, m)
              /\ Goto(p, [procs[p] EXCEPT !.result = {}])
    /\ UNCHANGED <<accounts, admins, groups, templates, policies, agent, uuid, writer>>

\* MemberStore.RemoveAllGroupMembers, the loop: one Remove per member ARN
\* listed; the first error ends DeleteGroup
RemoveAllGroupMembers(p) ==
    /\ At(p, "DeleteGroup", "removeMembers")
    /\ IF procs[p].result = {}
       THEN /\ Goto(p, [procs[p] EXCEPT !.pc = "deleteGroup"])
            /\ UNCHANGED members
       ELSE \E m \in procs[p].result :
              \/ /\ members' = MemberStoreRemove(procs[p].accountId, procs[p].arg, m)
                 /\ Goto(p, [procs[p] EXCEPT !.result = procs[p].result \ {m}])
              \/ /\ UNCHANGED members
                 /\ Goto(p, Return(procs[p], FALSE, "failed to remove member"))
    /\ UNCHANGED <<accounts, admins, groups, templates, policies, agent, uuid, writer>>

\* GroupStore.Delete: DeleteItem by (accountId, groupId)
GroupStoreDelete(p) ==
    /\ At(p, "DeleteGroup", "deleteGroup")
    /\ \/ /\ groups' = groups \ {Group(procs[p].accountId, procs[p].arg)}
          /\ Goto(p, Return(procs[p], TRUE, ""))
       \/ /\ UNCHANGED groups
          /\ Goto(p, Return(procs[p], FALSE, "failed to delete group"))
    /\ UNCHANGED <<accounts, admins, members, templates, policies, agent, uuid, writer>>

\* ------------------------------------------------------------------------
\* Reads under an account: the request keeps what the query returned
\* ------------------------------------------------------------------------
Answer(p, op, accountID, items) ==
    /\ procs[p] = Idle
    /\ Goto(p, Return([Req(op, "query", accountID) EXCEPT !.result = items], TRUE, ""))
    /\ UNCHANGED <<accounts, admins, groups, members, templates, policies, agent, uuid, writer>>

\* authorizerImpl.ListAdmins
ListAdmins(p, accountID) ==
    Answer(p, "ListAdmins", accountID, AdminStoreList(accountID))

\* authorizerImpl.ListGroups
ListGroups(p, accountID) ==
    Answer(p, "ListGroups", accountID, GroupStoreList(accountID))

\* authorizerImpl.ListGroupMembers
ListGroupMembers(p, accountID, groupID) ==
    Answer(p, "ListGroupMembers", accountID, ListGroupMembersItems(accountID, groupID))

\* authorizerImpl.GetUserGroups
UserGroups(p, accountID, memberARN) ==
    Answer(p, "GetUserGroups", accountID, GetUserGroupsItems(accountID, memberARN))

\* authorizerImpl.ListPolicies
ListPoliciesStart(p, accountID) ==
    /\ procs[p] = Idle
    /\ Goto(p, Req("ListPolicies", "resolve", accountID))
    /\ UNCHANGED <<accounts, admins, groups, members, templates, policies, agent, uuid, writer>>

\* store.Policy / Attachment as returned: the id the engine listed
Listed(kind, id) == [kind |-> kind, id |-> id]

\* MockAVPClient.ListPolicyTemplates: the ids of the store's templates
ListPoliciesTemplates(p) ==
    /\ At(p, "ListPolicies", "listTemplates")
    /\ Goto(p, [procs[p] EXCEPT
                    !.pc = "getTemplates",
                    !.result = {Listed("policy", t)
                                    : t \in DOMAIN StoreTemplates(procs[p].storeId)}])
    /\ UNCHANGED <<accounts, admins, groups, members, templates, policies, agent, uuid, writer>>

\* the loop of GetPolicyTemplate calls: a template that is gone is skipped
ListPoliciesDetails(p) ==
    /\ At(p, "ListPolicies", "getTemplates")
    /\ Goto(p, Return([procs[p] EXCEPT
                          !.result = {x \in procs[p].result :
                                        HasTemplate(procs[p].storeId, x.id)}],
                      TRUE, ""))
    /\ UNCHANGED <<accounts, admins, groups, members, templates, policies, agent, uuid, writer>>

\* authorizerImpl.ListAttachments (no filter beyond template-linked)
ListAttachmentsStart(p, accountID) ==
    /\ procs[p] = Idle
    /\ Goto(p, Req("ListAttachments", "resolve", accountID))
    /\ UNCHANGED <<accounts, admins, groups, members, templates, policies, agent, uuid, writer>>

\* MockAVPClient.ListPolicies
ListAttachmentsPolicies(p) ==
    /\ At(p, "ListAttachments", "listPolicies")
    /\ Goto(p, Return([procs[p] EXCEPT
                          !.result = {Listed("attachment", a)
                                        : a \in {x \in DOMAIN StorePolicies(procs[p].storeId) :
                                                   StorePolicies(procs[p].storeId)[x].templateID # ""}}],
                      TRUE, ""))
    /\ UNCHANGED <<accounts, admins, groups, members, templates, policies, agent, uuid, writer>>

\* ------------------------------------------------------------------------
\* The service as deployed: the privileged account is pre-seeded in the
\* accounts table, everything else is empty.
\* ------------------------------------------------------------------------
Init ==
    /\ accounts = {Account(PrivAccount, "", TRUE)}
    /\ admins = {}
    /\ groups = {}
    /\ members = {}
    /\ templates = <<>>
    /\ policies = <<>>
    /\ agent = {}
    /\ uuid = 0
    /\ writer = <<>>
    /\ procs = [p \in Procs |-> Idle]

\* Account lifecycle: concurrent EnableAccount / DisableAccount requests on the
\* pre-seeded account and one customer account.
LifecycleAccounts == {"00", "11"}

Next ==
    \/ \E p \in Procs, a \in LifecycleAccounts, priv \in BOOLEAN : EnableAccountStart(p, a, priv)
    \/ \E p \in Procs : EnableAccountCreatePolicyStore(p)
    \/ \E p \in Procs : EnableAccountPutSchema(p)
    \/ \E p \in Procs : EnableAccountCreateAccount(p)
    \/ \E p \in Procs : EnableAccountCleanup(p)
    \/ \E p \in Procs, a \in LifecycleAccounts : DisableAccountStart(p, a)
    \/ \E p \in Procs : DisableAccountGet(p)
    \/ \E p \in Procs : DisableAccountDeletePolicyStore(p)
    \/ \E p \in Procs : DisableAccountDelete(p)
    \/ \E p \in Procs : Finish(p)

Spec == Init /\ [][Next]_vars

\* ------------------------------------------------------------------------
\* Decision pipeline: request r1 is a tenant request being authorized while
\* request r2 administers account "11".  The state at the start is the one
\* after EnableAccount("11") and CreatePolicy("11", permit): a policy store
\* "s1" holding the template "t1".
\* ------------------------------------------------------------------------
Caller == "r1"
Operator == "r2"

AuthzInit ==
    /\ accounts = {Account(PrivAccount, "", TRUE), Account("11", "s1", FALSE)}
    /\ admins = {}
    /\ groups = {Group("11", "g1")}
    /\ members = {}
    /\ templates = ("s1" :> ("t1" :> mockTemplate(PermitText)))
    /\ policies = ("s1" :> <<>>)
    /\ agent = {}
    /\ uuid = 0
    /\ writer = ("t1" :> "11")
    /\ procs = [p \in Procs |-> Idle]

AuthzNext ==
    \/ \E a \in AccountIds, c \in Principals : AuthorizeStart(Caller, a, c)
    \/ AuthorizeIsPrivileged(Caller)
    \/ AuthorizeGetAccount(Caller)
    \/ AuthorizeIsAdmin(Caller)
    \/ AuthorizeGetUserGroups(Caller)
    \/ IsAuthorizedQuery(Caller)
    \/ \E p \in Procs : SyncSnapshot(p)
    \/ \E p \in Procs : SyncPutOk(p)
    \/ \E p \in Procs : SyncPutFail(p)
    \/ \E p \in Procs : Finish(p)
    \/ \E t \in {PrincipalEntity("u1"), GroupEntity("g1")} :
            AttachPolicyStart(Operator, "11", "t1", t)
    \/ ResolveStore(Operator)
    \/ CreatePolicyCheckTemplate(Operator)
    \/ CreatePolicyWrite(Operator)
    \/ DisableAccountStart(Operator, "11")
    \/ DisableAccountGet(Operator)
    \/ DisableAccountDeletePolicyStore(Operator)
    \/ DisableAccountDelete(Operator)
    \/ AddAdmin("11", "u1")
    \/ RemoveAdmin("11", "u1")
    \/ AddGroupMember("11", "g1", "u2")

AuthzSpec == AuthzInit /\ [][AuthzNext]_vars

\* Authz.Authorize (middleware) on what authorizer.Authorize returned
Gate(allowed, err) ==
    IF err # ""
    THEN IF err = "account not provisioned"
         THEN "account-not-provisioned"     \* 403
         ELSE "authorization-error"         \* 500
    ELSE IF ~allowed
         THEN "access-denied"               \* 403
         ELSE "forward"

\* the item of the accounts table says privileged
PrivilegedRecord(accountID) == \E a \in accounts : a.accountId = accountID /\ a.privileged

NoRecord(accountID) == \A a \in accounts : a.accountId # accountID

\* C1: when the accountId of the request is privileged, Authorize returns
\* Allow at its first step, whoever the caller is and whatever admins,
\* memberships and policies exist (the privileged lookup itself answering).
C1_PrivilegedAllow ==
    [][\A p \in Procs :
          (/\ At(p, "Authorize", "isPrivileged")
           /\ PrivilegedRecord(procs[p].accountId)
           /\ procs'[p] # procs[p]
           /\ procs'[p].err = "")
          => (procs'[p].pc = "done" /\ procs'[p].allowed)]_vars

\* Authorize returned Allow for the privileged account to a caller who is no
\* admin of it, with no policy registered for it.
C1_Witness ==
    /\ At(Caller, "Authorize", "done")
    /\ procs[Caller].accountId = PrivAccount
    /\ procs[Caller].allowed
    /\ procs[Caller].err = ""
    /\ Gate(procs[Caller].allowed, procs[Caller].err) = "forward"
    /\ ~\E a \in admins : a.accountId = PrivAccount
    /\ admins # {}

\* C2: when the account has a record and the caller is in its admin set,
\* Authorize passes the account lookup and returns Allow at the admin lookup
\* (the lookups themselves answering).
C2_AdminAllow ==
    [][\A p \in Procs :
          /\ (/\ At(p, "Authorize", "getAccount")
              /\ ~NoRecord(procs[p].accountId)
              /\ procs'[p] # procs[p]
              /\ procs'[p].err = "")
             => procs'[p].pc = "isAdmin"
          /\ (/\ At(p, "Authorize", "isAdmin")
              /\ Admin(procs[p].accountId, procs[p].callerArn) \in admins
              /\ procs'[p] # procs[p]
              /\ procs'[p].err = "")
             => (procs'[p].pc = "done" /\ procs'[p].allowed)]_vars

\* Authorize returned Allow to an admin of a regular account for which no
\* policy is attached.
C2_Witness ==
    /\ At(Caller, "Authorize", "done")
    /\ procs[Caller].accountId = "11"
    /\ procs[Caller].allowed
    /\ Admin("11", procs[Caller].callerArn) \in admins
    /\ Account("11", "s1", FALSE) \in accounts
    /\ StorePolicies("s1") = <<>>
    /\ agent = {}

\* C3: when the account has no record (and so is not privileged), Authorize
\* goes from the privileged lookup to the account lookup and there returns
\* the error AccountNotProvisioned (or the error of the lookup), never Allow
\* and never a Deny without error, whatever admin, membership or policy data
\* exists under that accountId.
C3_NotProvisioned ==
    [][\A p \in Procs :
          /\ (/\ At(p, "Authorize", "isPrivileged")
              /\ NoRecord(procs[p].accountId)
              /\ procs'[p] # procs[p]
              /\ procs'[p].err = "")
             => procs'[p].pc = "getAccount"
          /\ (/\ At(p, "Authorize", "getAccount")
              /\ NoRecord(procs[p].accountId)
              /\ procs'[p] # procs[p])
             => /\ procs'[p].pc = "done"
                /\ ~procs'[p].allowed
                /\ procs'[p].err \in {"account not provisioned", "failed to get account"}]_vars

\* Authorize returned AccountNotProvisioned to a caller who is still listed
\* as admin under the accountId, whose record DisableAccount has deleted.
C3_Witness ==
    /\ At(Caller, "Authorize", "done")
    /\ procs[Caller].err = "account not provisioned"
    /\ ~procs[Caller].allowed
    /\ Gate(procs[Caller].allowed, procs[Caller].err) = "account-not-provisioned"
    /\ NoRecord(procs[Caller].accountId)
    /\ Admin(procs[Caller].accountId, procs[Caller].callerArn) \in admins

\* C4: when a step of the pipeline failed with an error other than
\* AccountNotProvisioned (a lookup, or the engine's sync or query), Authorize
\* does not return Allow and the gate does not forward the request.
C4_NeverFailOpen ==
    \A p \in Procs :
        (/\ At(p, "Authorize", "done")
         /\ \/ procs[p].err \notin {"", "account not provisioned"}
            \/ procs[p].syncErr)
        => /\ ~(procs[p].allowed /\ procs[p].err = "")
           /\ Gate(procs[p].allowed, procs[p].err) # "forward"


\* ------------------------------------------------------------------------
\* Two tenants: accounts "11" and "22" with the policy stores "s1" and "s2".
\* Store "s1" holds the template "t1" attached to principal u1 (attachment
\* "a1"), store "s2" holds the template "t2" and no attachment.  Requests of
\* both tenants are authorized concurrently; the registry is not modified and
\* every call to cedar-agent succeeds.
\* ------------------------------------------------------------------------
TenantAccounts == {"11", "22"}

IsolationInit ==
    /\ accounts = {Account(PrivAccount, "", TRUE), Account("11", "s1", FALSE),
                   Account("22", "s2", FALSE)}
    /\ admins = {}
    /\ groups = {}
    /\ members = {}
    /\ templates = ("s1" :> ("t1" :> mockTemplate(PermitText))) @@
                   ("s2" :> ("t2" :> mockTemplate(PermitText)))
    /\ policies = ("s1" :> ("a1" :> mockPolicy(resolvePrincipal(PermitText, PrincipalEntity("u1")),
                                                "t1", PrincipalEntity("u1")))) @@
                  ("s2" :> <<>>)
    /\ agent = {}
    /\ uuid = 0
    /\ writer = ("t1" :> "11") @@ ("a1" :> "11") @@ ("t2" :> "22")
    /\ procs = [p \in Procs |-> Idle]

IsolationNext ==
    \/ \E p \in Procs, a \in TenantAccounts, c \in Principals : AuthorizeStart(p, a, c)
    \/ \E p \in Procs : AuthorizeIsPrivileged(p)
    \/ \E p \in Procs : AuthorizeGetAccount(p)
    \/ \E p \in Procs : AuthorizeIsAdmin(p)
    \/ \E p \in Procs : AuthorizeGetUserGroups(p)
    \/ \E p \in Procs : SyncSnapshot(p)
    \/ \E p \in Procs : SyncPutOk(p)
    \/ \E p \in Procs : IsAuthorizedQuery(p)
    \/ \E p \in Procs : Finish(p)

IsolationSpec == IsolationInit /\ [][IsolationNext]_vars

\* C5: the decision IsAuthorized returns for a query against policy store S
\* is the Cedar decision of that query on the policies registered in S,
\* whatever requests against other stores are interleaved with it.
C5_DecisionFromOwnStore ==
    [][\A p \in Procs :
          (/\ At(p, "Authorize", "query")
           /\ procs'[p].pc = "done"
           /\ procs'[p].err = "")
          => procs'[p].allowed =
                CedarDecision(PolicyList(procs[p].storeId),
                              CedarQuery(procs[p].callerArn, procs[p].groups))]_vars

\* ------------------------------------------------------------------------
\* Policy administration of one tenant: account "11" with the empty policy
\* store "s1"; two concurrent requests create, attach, detach and delete
\* policies, and every call to cedar-agent succeeds.
\* ------------------------------------------------------------------------
PolicyInit ==
    /\ accounts = {Account(PrivAccount, "", TRUE), Account("11", "s1", FALSE)}
    /\ admins = {}
    /\ groups = {}
    /\ members = {}
    /\ templates = ("s1" :> <<>>)
    /\ policies = ("s1" :> <<>>)
    /\ agent = {}
    /\ uuid = 0
    /\ writer = <<>>
    /\ procs = [p \in Procs |-> Idle]

PolicyNext ==
    \/ \E p \in Procs : CreatePolicyStart(p, "11", ForbidText)
    \/ \E p \in Procs, id \in IssuedIds : AttachPolicyStart(p, "11", id, PrincipalEntity("u1"))
    \/ \E p \in Procs, id \in IssuedIds : DetachPolicyStart(p, "11", id)
    \/ \E p \in Procs, id \in IssuedIds : DeletePolicyStart(p, "11", id)
    \/ \E p \in Procs : ResolveStore(p)
    \/ \E p \in Procs : CreatePolicyTemplate(p)
    \/ \E p \in Procs : CreatePolicyCheckTemplate(p)
    \/ \E p \in Procs : CreatePolicyWrite(p)
    \/ \E p \in Procs : DeletePolicyEntry(p)
    \/ \E p \in Procs : DeletePolicyListAttachments(p)
    \/ \E p \in Procs : DeletePolicyTemplate(p)
    \/ \E p \in Procs : SyncSnapshot(p)
    \/ \E p \in Procs : SyncPutOk(p)
    \/ \E p \in Procs : Finish(p)

PolicySpec == PolicyInit /\ [][PolicyNext]_vars

\* AuthzHandler.DeletePolicy: the status written for what the service returned
DeletePolicyStatus(err) ==
    IF err = "" THEN "204"
    ELSE IF err = "cannot delete policy with existing attachments"
         THEN "409 policy-in-use"
         ELSE "500 internal-error"

\* some attachment of the store references the template
Referenced(storeID, templateID) ==
    \E s \in DOMAIN policies : \E pid \in DOMAIN policies[s] :
        s = storeID /\ policies[s][pid].templateID = templateID

\* C7: every stored attachment references a template that exists in the same
\* policy store, in every reachable state, concurrent AttachPolicy,
\* DetachPolicy and DeletePolicy included.
C7_AttachmentHasTemplate ==
    \A s \in DOMAIN policies : \A pid \in DOMAIN policies[s] :
        policies[s][pid].templateID # "" => HasTemplate(s, policies[s][pid].templateID)

MemberArns == {"1#u1"}
MemberGroupIds == {"g1"}

TenantInit ==
    /\ accounts = {Account(PrivAccount, "", TRUE), Account("11", "s1", FALSE),
                   Account("22", "s2", FALSE)}
    /\ admins = {}
    /\ groups = {}
    /\ members = {}
    /\ templates = ("s1" :> ("t1" :> mockTemplate(PermitText))) @@
                   ("s2" :> ("t2" :> mockTemplate(PermitText)))
    /\ policies = ("s1" :> <<>>) @@ ("s2" :> <<>>)
    /\ agent = {}
    /\ uuid = 0
    /\ writer = ("t1" :> "11") @@ ("t2" :> "22")
    /\ procs = [p \in Procs |-> Idle]

TenantNext ==
    \/ \E a \in TenantAccounts : AddAdmin(a, "u1")
    \/ \E a \in TenantAccounts : RemoveAdmin(a, "u1")
    \/ \E a \in TenantAccounts : CreateGroup(a)
    \/ \E a \in TenantAccounts, g \in MemberGroupIds, m \in MemberArns : AddGroupMember(a, g, m)
    \/ \E a \in TenantAccounts, g \in MemberGroupIds, m \in MemberArns : RemoveGroupMember(a, g, m)
    \/ \E a \in TenantAccounts : ListAdmins(Caller, a)
    \/ \E a \in TenantAccounts : ListGroups(Caller, a)
    \/ \E a \in TenantAccounts, g \in MemberGroupIds : ListGroupMembers(Caller, a, g)
    \/ \E a \in TenantAccounts, m \in MemberArns : UserGroups(Caller, a, m)
    \/ \E a \in TenantAccounts : ListPoliciesStart(Caller, a)
    \/ \E a \in TenantAccounts : ListAttachmentsStart(Caller, a)
    \/ ListPoliciesTemplates(Caller)
    \/ ListPoliciesDetails(Caller)
    \/ ListAttachmentsPolicies(Caller)
    \/ \E a \in TenantAccounts, id \in {"t1", "t2"} :
            AttachPolicyStart(Operator, a, id, PrincipalEntity("u1"))
    \/ \E p \in Procs : ResolveStore(p)
    \/ CreatePolicyCheckTemplate(Operator)
    \/ CreatePolicyWrite(Operator)
    \/ SyncSnapshot(Operator)
    \/ SyncPutOk(Operator)
    \/ \E p \in Procs : Finish(p)

TenantSpec == TenantInit /\ [][TenantNext]_vars

\* the account under which an item was written: the accountId attribute the
\* writer stored with a table item, the recorded writer of an engine object
WrittenUnder(x) ==
    IF "kind" \in DOMAIN x THEN writer[x.id] ELSE x.accountId

Reads == {"ListAdmins", "ListGroups", "ListGroupMembers", "GetUserGroups",
          "ListPolicies", "ListAttachments"}

C9_RegularAccountHasLiveStore ==
    (\A p \in Procs : procs[p] = Idle) =>
        \A a \in accounts :
            ~a.privileged => (a.policyStoreId # "" /\ a.policyStoreId \in DOMAIN templates)

\* C10: every account record with privileged = true has an empty
\* policyStoreId.
C10_PrivilegedAccountHasNoStore ==
    \A a \in accounts : a.privileged => a.policyStoreId = ""

\* EnableAccount(accountId, privileged = true) has returned the record it
\* created, while some other request holds a policy store.
C10_Witness ==
    \E p \in Procs :
        /\ At(p, "EnableAccount", "done")
        /\ procs[p].err = ""
        /\ procs[p].privileged
        /\ procs[p].accountId # PrivAccount
        /\ Account(procs[p].accountId, "", TRUE) \in accounts
        /\ DOMAIN templates # {}

\* ------------------------------------------------------------------------
\* Gating middleware (pkg/middleware) on the routes of server.New
\* ------------------------------------------------------------------------

\* The middleware registered with Use on the subrouter of a route, in order,
\* then the handler.  "authz" stands for the policy, group, attachment and
\* admin routes, "check" for /api/v0/authz/check, which is registered on the
\* same subrouter, "data" for the management cluster, resource bundle and
\* work routes.
Chain(route) ==
    CASE route = "accounts" -> <<"checkPrivileged", "requirePrivileged", "handler">>
      [] route = "authz"    -> <<"checkPrivileged", "requireProvisioned", "requireAdmin", "handler">>
      [] route = "check"    -> <<"checkPrivileged", "requireProvisioned", "requireAdmin", "handler">>
      [] route = "data"     -> <<"checkPrivileged", "authorize", "handler">>

\* next.ServeHTTP(w, r) of the middleware `gate`
NextHandler(route, gate) ==
    LET i == CHOOSE i \in 1..Len(Chain(route)) : Chain(route)[i] = gate
    IN  Chain(route)[i + 1]

Forward(r, gate) == [r EXCEPT !.pc = NextHandler(r.route, gate)]

\* writeError(w, status, code, reason): the response is written, the chain ends
writeError(r, status) == [r EXCEPT !.pc = "done", !.status = status]

\* GetPrivileged(ctx): false when no value is stored under the key
GetPrivileged(r) == r.ctxPrivileged = "true"

\* the checker call `name` is made for the request
Called(r, name) == [r EXCEPT !.calls = @ \cup {name}]

\* middleware.Identity: the headers that are present go into the context;
\* an absent header reads back as "".  The body / path of the request is
\* kept with it: the id it names and the privileged flag of an enable.
Identity(p, route, method, accountID, callerARN, arg, flag) ==
    /\ procs[p] = Idle
    /\ Goto(p, [Req("http", "checkPrivileged", accountID) EXCEPT
                    !.callerArn = callerARN, !.route = route, !.method = method,
                    !.arg = arg, !.privileged = flag, !.hdrAccount = accountID])
    /\ UNCHANGED <<accounts, admins, groups, members, templates, policies, agent, uuid, writer>>

\* Mutant: a failed lookup annotates the request as privileged.
CheckPrivilegedTrustsOnError(p) ==
    /\ At(p, "http", "checkPrivileged")
    /\ LET r == procs[p]
       IN  IF r.accountId = ""
           THEN Goto(p, Forward(r, "checkPrivileged"))
           ELSE \/ Goto(p, Forward([Called(r, "IsPrivileged") EXCEPT
                                        !.annErr = TRUE, !.ctxPrivileged = "true"],
                                   "checkPrivileged"))
                \/ Goto(p, Forward([Called(r, "IsPrivileged") EXCEPT
                                        !.ctxPrivileged = IF IsPrivileged(r.accountId)
                                                          THEN "true" ELSE "false",
                                        !.sawPrivileged = PrivilegedRecord(r.accountId)],
                                   "checkPrivileged"))
    /\ UNCHANGED <<accounts, admins, groups, members, templates, policies, agent, uuid, writer>>

\* Privileged.CheckPrivileged
CheckPrivileged(p) ==
    /\ At(p, "http", "checkPrivileged")
    /\ LET r == procs[p]
       IN  IF r.accountId = ""
           THEN Goto(p, Forward(r, "checkPrivileged"))
           ELSE \/ Goto(p, Forward([Called(r, "IsPrivileged") EXCEPT !.annErr = TRUE],
                                   "checkPrivileged"))
                \/ Goto(p, Forward([Called(r, "IsPrivileged") EXCEPT
                                        !.ctxPrivileged = IF IsPrivileged(r.accountId)
                                                          THEN "true" ELSE "false",
                                        !.sawPrivileged = PrivilegedRecord(r.accountId)],
                                   "checkPrivileged"))
    /\ UNCHANGED <<accounts, admins, groups, members, templates, policies, agent, uuid, writer>>

\* Mutant: the refusal of a non-privileged account is only logged.
RequirePrivilegedLogsOnly(p) ==
    /\ At(p, "http", "requirePrivileged")
    /\ LET r == procs[p]
       IN  IF r.accountId = ""
           THEN Goto(p, writeError(r, "403 missing-account-id"))
           ELSE Goto(p, Forward(r, "requirePrivileged"))
    /\ UNCHANGED <<accounts, admins, groups, members, templates, policies, agent, uuid, writer>>

\* Privileged.RequirePrivileged
RequirePrivileged(p) ==
    /\ At(p, "http", "requirePrivileged")
    /\ LET r == procs[p]
       IN  IF r.accountId = ""
           THEN Goto(p, writeError(r, "403 missing-account-id"))
           ELSE IF GetPrivileged(r)
           THEN Goto(p, Forward(r, "requirePrivileged"))
           ELSE \/ Goto(p, writeError(Called(r, "IsPrivileged"), "500 internal-error"))
                \/ IF IsPrivileged(r.accountId)
                   THEN Goto(p, Forward([Called(r, "IsPrivileged") EXCEPT
                                            !.sawPrivileged = PrivilegedRecord(r.accountId)],
                                        "requirePrivileged"))
                   ELSE Goto(p, writeError(Called(r, "IsPrivileged"), "403 not-privileged"))
    /\ UNCHANGED <<accounts, admins, groups, members, templates, policies, agent, uuid, writer>>

\* AccountCheck.RequireProvisioned up to the first lookup of
\* authorizerImpl.IsAccountProvisioned, a.IsPrivileged
RequireProvisioned(p) ==
    /\ At(p, "http", "requireProvisioned")
    /\ LET r == procs[p]
       IN  IF r.accountId = ""
           THEN Goto(p, writeError(r, "403 missing-account-id"))
           ELSE IF GetPrivileged(r)
           THEN Goto(p, Forward(r, "requireProvisioned"))
           ELSE \/ Goto(p, writeError(Called(r, "IsPrivileged"), "500 internal-error"))
                \/ IF IsPrivileged(r.accountId)
                   THEN Goto(p, Forward([Called(r, "IsPrivileged") EXCEPT
                                            !.sawPrivileged = PrivilegedRecord(r.accountId)],
                                        "requireProvisioned"))
                   ELSE Goto(p, [Called(r, "IsPrivileged") EXCEPT !.pc = "accountStoreExists"])
    /\ UNCHANGED <<accounts, admins, groups, members, templates, policies, agent, uuid, writer>>

\* IsAccountProvisioned, second lookup: a.accountStore.Exists, and the rest
\* of RequireProvisioned
IsAccountProvisioned(p) ==
    /\ At(p, "http", "accountStoreExists")
    /\ LET r == Called(procs[p], "Exists")
       IN  \/ Goto(p, writeError(r, "500 internal-error"))
           \/ IF AccountStoreExists(r.accountId)
              THEN Goto(p, Forward(r, "requireProvisioned"))
              ELSE Goto(p, writeError(r, "403 account-not-provisioned"))
    /\ UNCHANGED <<accounts, admins, groups, members, templates, policies, agent, uuid, writer>>

\* Mutant: the refusal of a caller who is no admin is only logged.
RequireAdminLogsOnly(p) ==
    /\ At(p, "http", "requireAdmin")
    /\ LET r == procs[p]
       IN  IF r.accountId = ""
           THEN Goto(p, writeError(r, "403 missing-account-id"))
           ELSE IF GetPrivileged(r)
           THEN Goto(p, Forward(r, "requireAdmin"))
           ELSE IF r.callerArn = ""
           THEN Goto(p, writeError(r, "403 missing-caller-arn"))
           ELSE \/ Goto(p, writeError(Called(r, "IsAdmin"), "500 internal-error"))
                \/ Goto(p, Forward(Called(r, "IsAdmin"), "requireAdmin"))
    /\ UNCHANGED <<accounts, admins, groups, members, templates, policies, agent, uuid, writer>>

\* AdminCheck.RequireAdmin
RequireAdmin(p) ==
    /\ At(p, "http", "requireAdmin")
    /\ LET r == procs[p]
       IN  IF r.accountId = ""
           THEN Goto(p, writeError(r, "403 missing-account-id"))
           ELSE IF GetPrivileged(r)
           THEN Goto(p, Forward(r, "requireAdmin"))
           ELSE IF r.callerArn = ""
           THEN Goto(p, writeError(r, "403 missing-caller-arn"))
           ELSE \/ Goto(p, writeError(Called(r, "IsAdmin"), "500 internal-error"))
                \/ IF IsAdmin(r.accountId, r.callerArn)
                   THEN Goto(p, Forward(Called(r, "IsAdmin"), "requireAdmin"))
                   ELSE Goto(p, writeError(Called(r, "IsAdmin"), "403 not-admin"))
    /\ UNCHANGED <<accounts, admins, groups, members, templates, policies, agent, uuid, writer>>

\* Authz.Authorize (middleware) up to the call of authorizer.Authorize, whose
\* steps are those of authorizerImpl.Authorize; Gate is what the middleware
\* does with the result.
AuthzAuthorize(p) ==
    /\ At(p, "http", "authorize")
    /\ LET r == procs[p]
       IN  IF r.accountId = ""
           THEN Goto(p, writeError(r, "403 missing-account-id"))
           ELSE IF r.callerArn = ""
           THEN Goto(p, writeError(r, "403 missing-caller-arn"))
           ELSE IF GetPrivileged(r)
           THEN Goto(p, Forward(r, "authorize"))
           ELSE Goto(p, [Called(r, "Authorize") EXCEPT
                            !.op = "Authorize", !.pc = "isPrivileged", !.next = "query"])
    /\ UNCHANGED <<accounts, admins, groups, members, templates, policies, agent, uuid, writer>>

\* ------------------------------------------------------------------------
\* Handlers (pkg/handlers): what runs once the chain has forwarded
\* ------------------------------------------------------------------------
Handling(p, route, method) ==
    /\ At(p, "http", "handler")
    /\ procs[p].route = route
    /\ procs[p].method = method

\* the request entered its handler; the handler reads the account id from the
\* context
Handled(r) == Called(r, "handler")

\* AccountsHandler.Create: GetAccount of the account named in the body, 409
\* when it exists, else EnableAccount
AccountsCreate(p) ==
    /\ Handling(p, "accounts", "POST")
    /\ LET r == Handled(procs[p])
       IN  \/ Goto(p, writeError(r, "500 internal-error"))
           \/ IF AccountStoreGet(r.arg) # {}
              THEN Goto(p, writeError(r, "409 account-exists"))
              ELSE Goto(p, [r EXCEPT !.op = "EnableAccount", !.accountId = r.arg,
                                     !.pc = IF r.privileged THEN "createAccount"
                                                            ELSE "createPolicyStore"])
    /\ UNCHANGED <<accounts, admins, groups, members, templates, policies, agent, uuid, writer>>

\* AccountsHandler.Delete: DisableAccount of the account named in the path
AccountsDelete(p) ==
    /\ Handling(p, "accounts", "DELETE")
    /\ Goto(p, [Handled(procs[p]) EXCEPT !.op = "DisableAccount", !.accountId = procs[p].arg,
                                         !.pc = "getAccount"])
    /\ UNCHANGED <<accounts, admins, groups, members, templates, policies, agent, uuid, writer>>

\* AccountsHandler.Get
AccountsGet(p) ==
    /\ Handling(p, "accounts", "GET")
    /\ LET r == Handled(procs[p])
       IN  \/ Goto(p, writeError(r, "500 internal-error"))
           \/ IF AccountStoreGet(r.arg) = {}
              THEN Goto(p, writeError(r, "404 not-found"))
              ELSE Goto(p, writeError([r EXCEPT !.result = AccountStoreGet(r.arg)], "200"))
    /\ UNCHANGED <<accounts, admins, groups, members, templates, policies, agent, uuid, writer>>

\* AccountsHandler.List
AccountsList(p) ==
    /\ Handling(p, "accounts", "LIST")
    /\ LET r == Handled(procs[p])
       IN  \/ Goto(p, writeError(r, "500 internal-error"))
           \/ Goto(p, writeError([r EXCEPT !.result = accounts], "200"))
    /\ UNCHANGED <<accounts, admins, groups, members, templates, policies, agent, uuid, writer>>

\* AuthzHandler.AddAdmin: the conditional put fails when the admin exists
HandleAddAdmin(p) ==
    /\ Handling(p, "authz", "AddAdmin")
    /\ LET r == Handled(procs[p])
       IN  \/ /\ AdminStoreAddOk(r.accountId, r.arg)
              /\ admins' = AdminStoreAdd(r.accountId, r.arg)
              /\ Goto(p, writeError(r, "201"))
           \/ /\ UNCHANGED admins
              /\ Goto(p, writeError(r, "500 internal-error"))
    /\ UNCHANGED <<accounts, groups, members, templates, policies, agent, uuid, writer>>

\* AuthzHandler.RemoveAdmin
HandleRemoveAdmin(p) ==
    /\ Handling(p, "authz", "RemoveAdmin")
    /\ LET r == Handled(procs[p])
       IN  \/ /\ admins' = AdminStoreRemove(r.accountId, r.arg)
              /\ Goto(p, writeError(r, "204"))
           \/ /\ UNCHANGED admins
              /\ Goto(p, writeError(r, "500 internal-error"))
    /\ UNCHANGED <<accounts, groups, members, templates, policies, agent, uuid, writer>>

\* AuthzHandler.CreateGroup
HandleCreateGroup(p) ==
    /\ Handling(p, "authz", "CreateGroup")
    /\ LET r == Handled(procs[p])
       IN  \/ /\ CanUuid
              /\ uuid' = uuid + 1
              /\ groups' = groups \cup {Group(r.accountId, NewUuid)}
              /\ Goto(p, writeError([r EXCEPT !.newId = NewUuid], "201"))
           \/ /\ UNCHANGED <<groups, uuid>>
              /\ Goto(p, writeError(r, "500 internal-error"))
    /\ UNCHANGED <<accounts, admins, members, templates, policies, agent, writer>>

\* AuthzHandler.UpdateGroupMembers with one ARN to add and none to remove:
\* AddGroupMember, then ListGroupMembers for the response
HandleUpdateGroupMembers(p) ==
    /\ Handling(p, "authz", "UpdateGroupMembers")
    /\ LET r == Handled(procs[p])
       IN  \/ /\ members' = MemberStoreAdd(r.accountId, "g1", r.arg)
              /\ Goto(p, [r EXCEPT !.pc = "listMembers"])
           \/ /\ UNCHANGED members
              /\ Goto(p, writeError(r, "500 internal-error"))
    /\ UNCHANGED <<accounts, admins, groups, templates, policies, agent, uuid, writer>>

HandleListGroupMembers(p) ==
    /\ At(p, "http", "listMembers")
    /\ LET r == procs[p]
       IN  \/ Goto(p, writeError([r EXCEPT !.result = ListGroupMembersItems(r.accountId, "g1")],
                                 "200"))
           \/ Goto(p, writeError(r, "500 internal-error"))
    /\ UNCHANGED <<accounts, admins, groups, members, templates, policies, agent, uuid, writer>>

\* AuthzHandler.CreatePolicy: service.CreatePolicy with the Cedar text of the body
HandleCreatePolicy(p) ==
    /\ Handling(p, "authz", "CreatePolicy")
    /\ Goto(p, [Handled(procs[p]) EXCEPT !.op = "CreatePolicy", !.pc = "resolve",
                                         !.statement = PermitText])
    /\ UNCHANGED <<accounts, admins, groups, members, templates, policies, agent, uuid, writer>>

\* AuthzHandler.CreateAttachment: service.AttachPolicy of the policy named in
\* the body to the user named in the body
HandleCreateAttachment(p) ==
    /\ Handling(p, "authz", "CreateAttachment")
    /\ Goto(p, [Handled(procs[p]) EXCEPT !.op = "AttachPolicy", !.pc = "resolve",
                                         !.policyId = procs[p].arg,
                                         !.target = PrincipalEntity("u2")])
    /\ UNCHANGED <<accounts, admins, groups, members, templates, policies, agent, uuid, writer>>

\* AuthzHandler.CheckAuthorization: checker.Authorize for the principal named
\* in the body under the account of the header
CheckAuthorization(p) ==
    /\ Handling(p, "check", "POST")
    /\ Goto(p, [Handled(procs[p]) EXCEPT !.op = "Authorize", !.pc = "isPrivileged",
                                         !.callerArn = procs[p].arg, !.next = "query"])
    /\ UNCHANGED <<accounts, admins, groups, members, templates, policies, agent, uuid, writer>>

\* the handlers of the management cluster, resource bundle and work routes
DataHandler(p) ==
    /\ Handling(p, "data", "GET")
    /\ Goto(p, writeError(Handled(procs[p]), "200"))
    /\ UNCHANGED <<accounts, admins, groups, members, templates, policies, agent, uuid, writer>>

\* CheckAuthorization: the response for what checker.Authorize returned
CheckAuthorizationStatus(allowed, err) ==
    IF err # "" THEN "500 authorization-error"
    ELSE IF allowed THEN "200 ALLOW" ELSE "200 DENY"

\* ------------------------------------------------------------------------
\* The API behind its gates.  Account "00" is privileged (pre-seeded), the
\* accounts "11" and "22" are regular with the policy stores "s1" (holding
\* the template "t1") and "s2"; u1 is admin of "11" only, u2 of "22" only.
\* Request r1 is one request of a tenant on any route, with or without the
\* identity headers; meanwhile r2 serves the operator of the privileged
\* account, who disables account "22", and the admins of account "11" are
\* changed by other requests.
\* ------------------------------------------------------------------------
HttpRequest(route, method, arg, flag) ==
    [route |-> route, method |-> method, arg |-> arg, flag |-> flag]

TenantRequests ==
    {HttpRequest("accounts", "GET", "11", FALSE),
     HttpRequest("accounts", "LIST", "", FALSE),
     HttpRequest("authz", "AddAdmin", "u2", FALSE),
     HttpRequest("authz", "RemoveAdmin", "u1", FALSE),
     HttpRequest("authz", "CreateGroup", "", FALSE),
     HttpRequest("authz", "UpdateGroupMembers", "u2", FALSE),
     HttpRequest("authz", "CreatePolicy", "", FALSE),
     HttpRequest("authz", "CreateAttachment", "t1", FALSE),
     HttpRequest("check", "POST", "u1", FALSE),
     HttpRequest("check", "POST", "u2", FALSE),
     HttpRequest("data", "GET", "", FALSE)}

\* the values of X-Amz-Account-Id and X-Amz-Caller-Arn; "" is the absent header
HeaderAccounts == AccountIds \cup {""}
HeaderCallers == Principals \cup {""}

GateInit ==
    /\ accounts = {Account(PrivAccount, "", TRUE), Account("11", "s1", FALSE),
                   Account("22", "s2", FALSE)}
    /\ admins = {Admin("11", "u1"), Admin("22", "u2")}
    /\ groups = {Group("11", "g1")}
    /\ members = {}
    /\ templates = ("s1" :> ("t1" :> mockTemplate(PermitText))) @@ ("s2" :> <<>>)
    /\ policies = ("s1" :> <<>>) @@ ("s2" :> <<>>)
    /\ agent = {}
    /\ uuid = 0
    /\ writer = ("t1" :> "11")
    /\ procs = [p \in Procs |-> Idle]

GateNext ==
    \/ \E q \in TenantRequests, a \in HeaderAccounts, c \in HeaderCallers :
            Identity(Caller, q.route, q.method, a, c, q.arg, q.flag)
    \/ Identity(Operator, "accounts", "DELETE", PrivAccount, "u2", "22", FALSE)
    \/ \E p \in Procs : CheckPrivileged(p)
    \/ \E p \in Procs : RequirePrivileged(p)
    \/ \E p \in Procs : RequireProvisioned(p)
    \/ \E p \in Procs : IsAccountProvisioned(p)
    \/ \E p \in Procs : RequireAdmin(p)
    \/ \E p \in Procs : AuthzAuthorize(p)
    \/ \E p \in Procs : AccountsDelete(p)
    \/ \E p \in Procs : AccountsGet(p)
    \/ \E p \in Procs : AccountsList(p)
    \/ \E p \in Procs : HandleAddAdmin(p)
    \/ \E p \in Procs : HandleRemoveAdmin(p)
    \/ \E p \in Procs : HandleCreateGroup(p)
    \/ \E p \in Procs : HandleUpdateGroupMembers(p)
    \/ \E p \in Procs : HandleListGroupMembers(p)
    \/ \E p \in Procs : HandleCreatePolicy(p)
    \/ \E p \in Procs : HandleCreateAttachment(p)
    \/ \E p \in Procs : CheckAuthorization(p)
    \/ \E p \in Procs : DataHandler(p)
    \/ \E p \in Procs : DisableAccountGet(p)
    \/ \E p \in Procs : DisableAccountDeletePolicyStore(p)
    \/ \E p \in Procs : DisableAccountDelete(p)
    \/ \E p \in Procs : ResolveStore(p)
    \/ \E p \in Procs : CreatePolicyTemplate(p)
    \/ \E p \in Procs : CreatePolicyCheckTemplate(p)
    \/ \E p \in Procs : CreatePolicyWrite(p)
    \/ \E p \in Procs : AuthorizeIsPrivileged(p)
    \/ \E p \in Procs : AuthorizeGetAccount(p)
    \/ \E p \in Procs : AuthorizeIsAdmin(p)
    \/ \E p \in Procs : AuthorizeGetUserGroups(p)
    \/ \E p \in Procs : IsAuthorizedQuery(p)
    \/ \E p \in Procs : SyncSnapshot(p)
    \/ \E p \in Procs : SyncPutOk(p)
    \/ Finish(Operator)
    \/ AddAdmin("11", "u2")
    \/ RemoveAdmin("11", "u1")

GateSpec == GateInit /\ [][GateNext]_vars

\* the response of a request: what a gate or handler wrote, or what the
\* caller of the service method writes for what the method returned
Response(r) ==
    IF r.status # "" THEN r.status
    ELSE IF r.pc # "done" THEN ""
    ELSE IF r.op = "Authorize" /\ r.route = "data" THEN Gate(r.allowed, r.err)
    ELSE IF r.op = "Authorize" /\ r.route = "check"
         THEN CheckAuthorizationStatus(r.allowed, r.err)
    ELSE IF r.err = "" THEN "2xx" ELSE "error"


\* the tenant data behind the admin-only routes
TenantData == <<admins, groups, members, templates, policies>>

\* C11: a caller who is admin of an account A but not of the account B named
\* by the request is refused by the admin gate with 403 NotAdmin (500 when the
\* lookup itself fails) on every route behind it, and the handler is not
\* entered: the admin check is per account.
C11_AdminIsPerAccount ==
    [][\A p \in Procs : \A A \in AccountIds, B \in AccountIds :
          (/\ At(p, "http", "requireAdmin")
           /\ A # B
           /\ procs[p].accountId = B
           /\ procs[p].callerArn # ""
           /\ ~GetPrivileged(procs[p])
           /\ Admin(A, procs[p].callerArn) \in admins
           /\ Admin(B, procs[p].callerArn) \notin admins
           /\ procs'[p] # procs[p])
          => /\ procs'[p].pc = "done"
             /\ procs'[p].status \in {"403 not-admin", "500 internal-error"}
             /\ "handler" \notin procs'[p].calls]_vars

\* u1, admin of account "11" only, asked for a group of account "22" to be
\* created and was answered 403 NotAdmin.
C11_Witness ==
    /\ At(Caller, "http", "done")
    /\ procs[Caller].route = "authz"
    /\ procs[Caller].method = "CreateGroup"
    /\ procs[Caller].accountId = "22"
    /\ procs[Caller].callerArn = "u1"
    /\ Response(procs[Caller]) = "403 not-admin"
    /\ Admin("11", "u1") \in admins
    /\ Account("22", "s2", FALSE) \in accounts
    /\ \A g \in groups : g.accountId # "22"

\* C12: on a route behind the admin gate, a request that carries no
\* privileged annotation and whose callerArn is not in the admin set of its
\* account is refused with 403 NotAdmin (500 when the lookup fails); the
\* handler is not entered and no account, admin, group, membership, policy
\* or attachment data changes.
C12_NonAdminRefused ==
    [][\A p \in Procs :
          (/\ At(p, "http", "requireAdmin")
           /\ procs[p].accountId # ""
           /\ procs[p].callerArn # ""
           /\ ~GetPrivileged(procs[p])
           /\ Admin(procs[p].accountId, procs[p].callerArn) \notin admins
           /\ procs'[p] # procs[p])
          => /\ procs'[p].pc = "done"
             /\ procs'[p].status \in {"403 not-admin", "500 internal-error"}
             /\ "handler" \notin procs'[p].calls
             /\ TenantData' = TenantData
             /\ accounts' = accounts]_vars

\* u2, who is no admin of the provisioned account "11", asked to be added to
\* its admins and was answered 403 NotAdmin; the admin set is as it was.
C12_Witness ==
    /\ At(Caller, "http", "done")
    /\ procs[Caller].method = "AddAdmin"
    /\ procs[Caller].accountId = "11"
    /\ procs[Caller].callerArn = "u2"
    /\ procs[Caller].ctxPrivileged = "false"
    /\ Response(procs[Caller]) = "403 not-admin"
    /\ "Exists" \in procs[Caller].calls
    /\ Account("11", "s1", FALSE) \in accounts
    /\ admins = {Admin("11", "u1"), Admin("22", "u2")}

\* C13: on the routes under /api/v0/authz, a request without privileged
\* annotation whose account has no record passes from the privileged lookup
\* of the account-provisioned gate to its existence lookup and is refused
\* there with 403 AccountNotProvisioned (500 when a lookup fails); neither
\* the admin lookup nor the handler runs.
C13_UnprovisionedRefused ==
    [][\A p \in Procs :
          /\ (/\ At(p, "http", "requireProvisioned")
              /\ procs[p].accountId # ""
              /\ ~GetPrivileged(procs[p])
              /\ NoRecord(procs[p].accountId)
              /\ procs'[p] # procs[p])
             => \/ procs'[p].pc = "accountStoreExists"
                \/ procs'[p].pc = "done" /\ procs'[p].status = "500 internal-error"
          /\ (/\ At(p, "http", "accountStoreExists")
              /\ NoRecord(procs[p].accountId)
              /\ procs'[p] # procs[p])
             => /\ procs'[p].pc = "done"
                /\ procs'[p].status \in {"403 account-not-provisioned", "500 internal-error"}
                /\ "IsAdmin" \notin procs'[p].calls
                /\ "handler" \notin procs'[p].calls]_vars

\* Account "22" was enabled and has been disabled since; u2, still listed as
\* its admin, is answered 403 AccountNotProvisioned.
C13_Witness ==
    /\ At(Caller, "http", "done")
    /\ procs[Caller].route = "authz"
    /\ procs[Caller].accountId = "22"
    /\ procs[Caller].callerArn = "u2"
    /\ Response(procs[Caller]) = "403 account-not-provisioned"
    /\ Admin("22", "u2") \in admins
    /\ NoRecord("22")
    /\ At(Operator, "DisableAccount", "done")
    /\ procs[Operator].err = ""

\* C15: a request annotated privileged is forwarded to its handler by the
\* account-provisioned gate, the admin gate and the authorize gate, and no
\* gate makes an admin lookup or runs the decision pipeline for it, whether
\* or not it carries a callerArn.
C15_PrivilegedForwarded ==
    \A p \in Procs :
        (procs[p].route \in {"authz", "check", "data"} /\ GetPrivileged(procs[p]))
        => /\ "IsAdmin" \notin procs[p].calls
           /\ "Authorize" \notin procs[p].calls
           /\ (procs[p].op = "http" /\ procs[p].pc = "done") => "handler" \in procs[p].calls

\* C16 as stated: a request whose annotation lookup failed is treated as
\* non-privileged by every later gate, so the privileged gate of
\* /api/v0/accounts never forwards it.
C16_TreatedNonPrivileged ==
    \A p \in Procs :
        (procs[p].annErr /\ procs[p].route = "accounts") => "handler" \notin procs[p].calls

\* C16, amended: when the lookup of the annotation step fails the request
\* proceeds to the next gate with no privileged annotation and stays without
\* one; no later gate short-circuits for it: the privileged gate and the
\* account-provisioned gate forward it as privileged only when their own
\* lookup finds the account privileged, the admin gate only when the caller
\* is an admin, and the authorize gate runs the decision pipeline.
C16_NoAnnotationAfterFailure ==
    [][\A p \in Procs :
          /\ (/\ At(p, "http", "checkPrivileged")
              /\ procs'[p].annErr)
             => /\ procs'[p].ctxPrivileged = "unset"
                /\ procs'[p].status = ""
                /\ procs'[p].pc = NextHandler(procs[p].route, "checkPrivileged")
          /\ procs'[p].annErr => ~GetPrivileged(procs'[p])
          /\ (/\ procs[p].annErr
              /\ At(p, "http", "requirePrivileged")
              /\ procs'[p].pc = "handler")
             => PrivilegedRecord(procs[p].accountId)
          /\ (/\ procs[p].annErr
              /\ At(p, "http", "requireProvisioned")
              /\ procs'[p].pc = NextHandler(procs[p].route, "requireProvisioned"))
             => PrivilegedRecord(procs[p].accountId)
          /\ (/\ procs[p].annErr
              /\ At(p, "http", "requireAdmin")
              /\ procs'[p].pc = "handler")
             => Admin(procs[p].accountId, procs[p].callerArn) \in admins
          /\ (/\ procs[p].annErr
              /\ At(p, "http", "authorize")
              /\ procs'[p] # procs[p])
             => procs'[p].pc # "handler"]_vars

\* The annotation lookup failed for a request of the privileged account "00"
\* on an admin-only route: the admin gate treated it as a request of a
\* non-privileged account and refused it.
C16_Witness ==
    /\ At(Caller, "http", "done")
    /\ procs[Caller].annErr
    /\ procs[Caller].route = "authz"
    /\ procs[Caller].accountId = PrivAccount
    /\ PrivilegedRecord(PrivAccount)
    /\ Response(procs[Caller]) = "403 not-admin"

\* C17: POST /api/v0/authz/check is gated by the account-provisioned gate
\* only: a request under a provisioned account is never refused for want of
\* admin rights or of a callerArn header.
C17_CheckOnlyProvisionedGate ==
    \A p \in Procs :
        (procs[p].route = "check" /\ ~procs[p].annErr)
        => Response(procs[p]) \notin {"403 not-admin", "403 missing-caller-arn"}


\* C18: when EnableAccount of a non-privileged account fails at the schema
\* installation or at the insert of the account record, it goes on to the
\* deletion of the policy store it created, returns the error of the failed
\* step whether or not that deletion succeeded, and wrote no account record.
C18_EnableRollback ==
    [][\A p \in Procs :
          /\ (/\ At(p, "EnableAccount", "putSchema")
              /\ procs'[p] # procs[p]
              /\ procs'[p].pc # "createAccount")
             => /\ procs'[p].pc = "cleanup"
                /\ procs'[p].err = "failed to set policy store schema"
                /\ accounts' = accounts
          /\ (/\ At(p, "EnableAccount", "createAccount")
              /\ procs[p].storeId # ""
              /\ procs'[p] # procs[p]
              /\ accounts' = accounts)
             => /\ procs'[p].pc = "cleanup"
                /\ procs'[p].err \in {"failed to create account", "account already exists"}
          /\ (At(p, "EnableAccount", "cleanup") /\ procs'[p] # procs[p])
             => /\ procs'[p].pc = "done"
                /\ ~procs'[p].allowed
                /\ procs'[p].err = procs[p].err
                /\ procs[p].err # ""
                /\ procs[p].storeId \notin DOMAIN templates' \/ procs'[p].engineErr
                /\ accounts' = accounts
                /\ \A a \in accounts' : a.policyStoreId # procs[p].storeId]_vars

\* EnableAccount returned the error of the failed insert although the
\* deletion of its policy store failed too; no record exists for the account.
C18_Witness ==
    \E p \in Procs :
        /\ At(p, "EnableAccount", "done")
        /\ procs[p].err = "failed to create account"
        /\ procs[p].engineErr
        /\ procs[p].storeId \in DOMAIN templates
        /\ NoRecord(procs[p].accountId)

\* C19: an EnableAccount that reaches its insert while a record of the
\* accountId exists fails (AlreadyExists, or the error of the put), leaves the
\* account table as it is, and its rollback deletes only the policy store it
\* created itself, which no record references; an insert succeeds only when
\* no record existed, and then exactly one record exists.
C19_SingleEnable ==
    [][\A p \in Procs :
          /\ (/\ At(p, "EnableAccount", "createAccount")
              /\ ~NoRecord(procs[p].accountId)
              /\ procs'[p] # procs[p])
             => /\ accounts' = accounts
                /\ procs'[p].err \in {"account already exists", "failed to create account"}
                /\ procs'[p].pc \in {"cleanup", "done"}
                /\ ~procs'[p].allowed
          /\ (/\ At(p, "EnableAccount", "createAccount")
              /\ procs'[p].pc = "done"
              /\ procs'[p].err = "")
             => /\ NoRecord(procs[p].accountId)
                /\ Cardinality({a \in accounts' : a.accountId = procs[p].accountId}) = 1
          /\ (At(p, "EnableAccount", "cleanup") /\ procs'[p] # procs[p])
             => /\ \A a \in accounts : a.policyStoreId # procs[p].storeId
                /\ \A a \in accounts :
                      a.policyStoreId \in DOMAIN templates
                          => a.policyStoreId \in DOMAIN templates']_vars

\* Two concurrent EnableAccount calls for account "11": one created the
\* record, the other failed with AlreadyExists and rolled back its own policy
\* store; the store of the record is still registered.
C19_Witness ==
    /\ At("r1", "EnableAccount", "done")
    /\ At("r2", "EnableAccount", "done")
    /\ procs["r1"].accountId = "11"
    /\ procs["r2"].accountId = "11"
    /\ procs["r1"].err = ""
    /\ procs["r2"].err = "account already exists"
    /\ procs["r2"].storeId # ""
    /\ procs["r2"].storeId \notin DOMAIN templates
    /\ Account("11", procs["r1"].storeId, FALSE) \in accounts
    /\ procs["r1"].storeId \in DOMAIN templates

\* C20: DisableAccount goes on to the deletion of the account record whether
\* or not the engine deleted the policy store, never returns the error of the
\* engine, and when it returns without error the record is gone.
C20_DisableDespiteEngineFailure ==
    [][\A p \in Procs :
          /\ (At(p, "DisableAccount", "deletePolicyStore") /\ procs'[p] # procs[p])
             => /\ procs'[p].pc = "deleteAccount"
                /\ procs'[p].err = ""
          /\ (At(p, "DisableAccount", "deleteAccount") /\ procs'[p] # procs[p])
             => /\ procs'[p].pc = "done"
                /\ procs'[p].err \in {"", "failed to delete account"}
                /\ procs'[p].err = ""
                      => \A a \in accounts' : a.accountId # procs[p].accountId]_vars

\* DisableAccount returned without error and the record is gone, although the
\* engine refused to delete the policy store, which is still registered.
C20_Witness ==
    \E p \in Procs :
        /\ At(p, "DisableAccount", "done")
        /\ procs[p].err = ""
        /\ procs[p].engineErr
        /\ procs[p].storeId \in DOMAIN templates
        /\ NoRecord(procs[p].accountId)

\* ------------------------------------------------------------------------
\* Account management behind the privileged gate.  Account "00" is
\* privileged (pre-seeded) and "11" is a regular account with the policy
\* store "s1".  Request r1 is a request on /api/v0/accounts under any
\* X-Amz-Account-Id, or none; meanwhile r2 serves the requests of the
\* operator, under the privileged account, who enables and disables account
\* "22" (as a regular or as a privileged account).
\* ------------------------------------------------------------------------
AccountsRequests ==
    {HttpRequest("accounts", "POST", "22", FALSE),
     HttpRequest("accounts", "POST", "22", TRUE),
     HttpRequest("accounts", "DELETE", "11", FALSE),
     HttpRequest("accounts", "DELETE", "22", FALSE),
     HttpRequest("accounts", "GET", "11", FALSE),
     HttpRequest("accounts", "LIST", "", FALSE)}

OperatorRequests ==
    {HttpRequest("accounts", "POST", "22", FALSE),
     HttpRequest("accounts", "POST", "22", TRUE),
     HttpRequest("accounts", "DELETE", "22", FALSE)}

AccountsInit ==
    /\ accounts = {Account(PrivAccount, "", TRUE), Account("11", "s1", FALSE)}
    /\ admins = {}
    /\ groups = {}
    /\ members = {}
    /\ templates = ("s1" :> <<>>)
    /\ policies = ("s1" :> <<>>)
    /\ agent = {}
    /\ uuid = 0
    /\ writer = <<>>
    /\ procs = [p \in Procs |-> Idle]

AccountsNext ==
    \/ \E q \in AccountsRequests, a \in HeaderAccounts :
            Identity(Caller, q.route, q.method, a, "u1", q.arg, q.flag)
    \/ \E q \in OperatorRequests :
            Identity(Operator, q.route, q.method, PrivAccount, "u2", q.arg, q.flag)
    \/ \E p \in Procs : CheckPrivileged(p)
    \/ \E p \in Procs : RequirePrivileged(p)
    \/ \E p \in Procs : AccountsCreate(p)
    \/ \E p \in Procs : AccountsDelete(p)
    \/ \E p \in Procs : AccountsGet(p)
    \/ \E p \in Procs : AccountsList(p)
    \/ \E p \in Procs : EnableAccountCreatePolicyStore(p)
    \/ \E p \in Procs : EnableAccountPutSchema(p)
    \/ \E p \in Procs : EnableAccountCreateAccount(p)
    \/ \E p \in Procs : EnableAccountCleanup(p)
    \/ \E p \in Procs : DisableAccountGet(p)
    \/ \E p \in Procs : DisableAccountDeletePolicyStore(p)
    \/ \E p \in Procs : DisableAccountDelete(p)
    \/ Finish(Operator)

AccountsSpec == AccountsInit /\ [][AccountsNext]_vars

\* C14: the privileged gate of /api/v0/accounts forwards a request to its
\* handler only when a lookup made for that request found its accountId
\* privileged; a request whose accountId is absent or not privileged is
\* answered 403 (500 when the lookup fails) and the account table is left
\* alone; every change of the account table is made by a request that passed
\* the gate.
C14_AccountsOnlyPrivileged ==
    [][/\ \A p \in Procs :
            /\ (At(p, "http", "requirePrivileged") /\ procs'[p] # procs[p])
               => IF procs'[p].pc = "handler"
                  THEN /\ procs'[p].sawPrivileged
                       /\ procs[p].accountId # ""
                  ELSE /\ procs'[p].pc = "done"
                       /\ procs'[p].status \in {"403 missing-account-id", "403 not-privileged",
                                                "500 internal-error"}
                       /\ accounts' = accounts
            /\ (/\ At(p, "http", "requirePrivileged")
                /\ ~GetPrivileged(procs[p])
                /\ ~PrivilegedRecord(procs[p].accountId)
                /\ procs'[p] # procs[p])
               => /\ procs'[p].pc = "done"
                  /\ "handler" \notin procs'[p].calls
       /\ accounts' # accounts
          => \E q \in Procs :
                /\ procs'[q] # procs[q]
                /\ procs[q].route = "accounts"
                /\ procs[q].op \in {"EnableAccount", "DisableAccount"}
                /\ procs[q].sawPrivileged
                /\ "handler" \in procs[q].calls]_vars

\* The operator, under the privileged account, has enabled account "22",
\* while the same request under account "11" was refused with 403 and wrote
\* nothing.
C14_Witness ==
    /\ At(Operator, "EnableAccount", "done")
    /\ procs[Operator].err = ""
    /\ procs[Operator].hdrAccount = PrivAccount
    /\ \E a \in accounts : a.accountId = "22"
    /\ At(Caller, "http", "done")
    /\ procs[Caller].method = "POST"
    /\ procs[Caller].hdrAccount = "11"
    /\ Response(procs[Caller]) = "403 not-privileged"
    /\ "handler" \notin procs[Caller].calls

\* C21: once RemoveAdmin("11", "u1") has completed and u1 has not been added
\* again, a request of u1 under account "11" is treated as a non-admin: the
\* admin gate refuses it with 403 NotAdmin (500 when the lookup fails) and
\* Authorize does not return at its admin step but goes on to the caller's
\* groups (or fails).
C21_RemovedAdminIsNoAdmin ==
    [][\A p \in Procs :
          (/\ Admin("11", "u1") \notin admins
           /\ procs[p].accountId = "11"
           /\ procs[p].callerArn = "u1"
           /\ procs'[p] # procs[p])
          => /\ (At(p, "http", "requireAdmin") /\ ~GetPrivileged(procs[p]))
                => /\ procs'[p].pc = "done"
                   /\ procs'[p].status \in {"403 not-admin", "500 internal-error"}
                   /\ "handler" \notin procs'[p].calls
             /\ At(p, "Authorize", "isAdmin")
                => \/ procs'[p].pc = "getUserGroups"
                   \/ procs'[p].pc = "done" /\ procs'[p].err # "" /\ ~procs'[p].allowed]_vars

\* u1 has been removed from the admins of account "11": its request on a
\* tenant data route went past the admin step of Authorize to the policy
\* engine, which denied it.
C21_Witness ==
    /\ Admin("11", "u1") \notin admins
    /\ At(Caller, "Authorize", "done")
    /\ procs[Caller].route = "data"
    /\ procs[Caller].accountId = "11"
    /\ procs[Caller].callerArn = "u1"
    /\ "Authorize" \in procs[Caller].calls
    /\ procs[Caller].err = ""
    /\ Response(procs[Caller]) = "access-denied"

\* C29: an AddAdmin request for a principal that is already an admin of the
\* account is answered 409 AlreadyExists.
C29_DuplicateAdminIs409 ==
    [][\A p \in Procs :
          (/\ Handling(p, "authz", "AddAdmin")
           /\ IsAdmin(procs[p].accountId, procs[p].arg)
           /\ procs'[p] # procs[p])
          => procs'[p].status = "409 already-exists"]_vars

\* ------------------------------------------------------------------------
\* Admin bootstrap.  Account "11" is provisioned and has no admin.  Request
\* r1 is served for a caller of the privileged account "00", over and over:
\* any request of the admin and account management API.  The header
\* X-Amz-Account-Id names the caller's own account; the admin routes take
\* no other account parameter.
\* ------------------------------------------------------------------------
BootstrapNext ==
    \/ \E q \in AccountsRequests \cup
                {HttpRequest("authz", "AddAdmin", "u1", FALSE),
                 HttpRequest("authz", "AddAdmin", "u2", FALSE),
                 HttpRequest("authz", "RemoveAdmin", "u1", FALSE),
                 HttpRequest("authz", "CreateGroup", "", FALSE)},
          c \in HeaderCallers :
            Identity(Caller, q.route, q.method, PrivAccount, c, q.arg, q.flag)
    \/ CheckPrivileged(Caller)
    \/ RequirePrivileged(Caller)
    \/ RequireProvisioned(Caller)
    \/ RequireAdmin(Caller)
    \/ AccountsCreate(Caller)
    \/ AccountsDelete(Caller)
    \/ AccountsGet(Caller)
    \/ AccountsList(Caller)
    \/ HandleAddAdmin(Caller)
    \/ HandleRemoveAdmin(Caller)
    \/ HandleCreateGroup(Caller)
    \/ EnableAccountCreatePolicyStore(Caller)
    \/ EnableAccountPutSchema(Caller)
    \/ EnableAccountCreateAccount(Caller)
    \/ EnableAccountCleanup(Caller)
    \/ DisableAccountGet(Caller)
    \/ DisableAccountDeletePolicyStore(Caller)
    \/ DisableAccountDelete(Caller)
    \/ Finish(Caller)

\* every request is served to its end
BootstrapSpec == AccountsInit /\ [][BootstrapNext]_vars /\ WF_vars(BootstrapNext)

\* C22: the privileged caller, using the HTTP API, gets a principal made an
\* admin of the provisioned account "11", which has no admin.
C22_PrivilegedCanBootstrapAdmin ==
    <>(\E x \in admins : x.accountId = "11")

\* what the privileged caller's requests can write: admins of its own account
BootstrapAdminsOwnAccount ==
    \A x \in admins : x.accountId = PrivAccount

\* ------------------------------------------------------------------------
\* Groups and members of account "11": group "g1" exists and the permit
\* template "t1" is attached to it (attachment "a1").  Request r2 deletes the
\* group.  Member u1 is added and removed by requests that do not overlap
\* the DeleteGroup call, member u2 by requests that may overlap it.  Request
\* r1 reads the groups and members and asks for decisions.
\* ------------------------------------------------------------------------
GroupInit ==
    /\ accounts = {Account(PrivAccount, "", TRUE), Account("11", "s1", FALSE)}
    /\ admins = {}
    /\ groups = {Group("11", "g1")}
    /\ members = {}
    /\ templates = ("s1" :> ("t1" :> mockTemplate(PermitText)))
    /\ policies = ("s1" :> ("a1" :> mockPolicy(resolvePrincipal(PermitText, GroupEntity("g1")),
                                                "t1", GroupEntity("g1"))))
    /\ agent = {}
    /\ uuid = 0
    /\ writer = ("t1" :> "11") @@ ("a1" :> "11")
    /\ procs = [p \in Procs |-> Idle]

GroupNext ==
    \/ DeleteGroup(Operator, "11", "g1")
    \/ RemoveAllGroupMembers(Operator)
    \/ GroupStoreDelete(Operator)
    \/ procs[Operator].pc \in {"idle", "done"} /\ AddGroupMember("11", "g1", "u1")
    \/ procs[Operator].pc \in {"idle", "done"} /\ RemoveGroupMember("11", "g1", "u1")
    \/ AddGroupMember("11", "g1", "u2")
    \/ RemoveGroupMember("11", "g1", "u2")
    \/ ListGroups(Caller, "11")
    \/ ListGroupMembers(Caller, "11", "g1")
    \/ \E m \in Principals : UserGroups(Caller, "11", m)
    \/ \E m \in Principals : AuthorizeStart(Caller, "11", m)
    \/ AuthorizeIsPrivileged(Caller)
    \/ AuthorizeGetAccount(Caller)
    \/ AuthorizeIsAdmin(Caller)
    \/ AuthorizeGetUserGroups(Caller)
    \/ SyncSnapshot(Caller)
    \/ SyncPutOk(Caller)
    \/ IsAuthorizedQuery(Caller)
    \/ \E p \in Procs : Finish(p)

GroupSpec == GroupInit /\ [][GroupNext]_vars

\* C24: ListGroupMembers returns no membership row of a group that has no
\* group record.
C24_NoRowOfMissingGroupListed ==
    [][\A p \in Procs :
          (procs[p] = Idle /\ procs'[p].op = "ListGroupMembers")
          => \A x \in procs'[p].result : Group(x.accountId, x.groupId) \in groups]_vars

\* C25: a caller whose memberships all name groups without a group record,
\* and to whom no policy applies directly, is not allowed by the engine.
C25_OrphanRowGrantsNothing ==
    [][\A p \in Procs :
          (/\ At(p, "Authorize", "query")
           /\ procs'[p].pc = "done"
           /\ procs'[p].err = ""
           /\ procs[p].groups # {}
           /\ \A g \in procs[p].groups :
                /\ Group(procs[p].accountId, g) \notin groups
                /\ GroupMember(procs[p].accountId, g, procs[p].callerArn) \in members
           /\ ~CedarDecision(agent, CedarQuery(procs[p].callerArn, {})))
          => ~procs'[p].allowed]_vars

\* C26: the step of AddMember(g, p) leaves p among the members listed for g
\* and g among the groups of p; the step of RemoveMember(g, p) leaves p out
\* of the members listed for g and g out of the groups of p.
C26_AddRemoveVisibleInBothReads ==
    [][\A a \in {"11"}, g \in GroupIds, m \in Principals :
          /\ members' = MemberStoreAdd(a, g, m)
             => /\ m \in {x.memberArn : x \in ListGroupMembersItems(a, g)'}
                /\ g \in GetUserGroups(a, m)'
          /\ members' = MemberStoreRemove(a, g, m)
             => /\ m \notin {x.memberArn : x \in ListGroupMembersItems(a, g)'}
                /\ g \notin GetUserGroups(a, m)']_vars

\* r1 read the groups of u2 while u2 was a member of g1; u2 has been removed
\* since and u1 added: g1 lists u1 only and is a group of u1 only.
C26_Witness ==
    /\ At(Caller, "GetUserGroups", "done")
    /\ procs[Caller].result = {GroupMember("11", "g1", "u2")}
    /\ procs[Operator] = Idle
    /\ Group("11", "g1") \in groups
    /\ {x.memberArn : x \in ListGroupMembersItems("11", "g1")} = {"u1"}
    /\ GetUserGroups("11", "u1") = {"g1"}
    /\ GetUserGroups("11", "u2") = {}

UpdateNext ==
    \/ \E t \in {PrincipalEntity("u1"), GroupEntity("g1")} :
            AttachPolicyStart(Caller, "11", "t1", t)
    \/ procs[Operator] = Idle /\ AuthorizeStart(Caller, "11", "u1")
    \/ \E text \in CedarTexts :
            procs[Caller].op # "Authorize" /\ UpdatePolicyStart(Operator, "11", "t1", text)
    \/ \E p \in Procs : ResolveStore(p)
    \/ CreatePolicyCheckTemplate(Caller)
    \/ CreatePolicyWrite(Caller)
    \/ UpdatePolicyTemplate(Operator)
    \/ AuthorizeIsPrivileged(Caller)
    \/ AuthorizeGetAccount(Caller)
    \/ AuthorizeIsAdmin(Caller)
    \/ AuthorizeGetUserGroups(Caller)
    \/ IsAuthorizedQuery(Caller)
    \/ \E p \in Procs : SyncSnapshot(p)
    \/ \E p \in Procs : SyncPutOk(p)
    \/ \E p \in Procs : SyncPutFail(p)
    \/ \E p \in Procs : Finish(p)

UpdateSpec == AuthzInit /\ [][UpdateNext]_vars

\* C23: every attachment linked to a template carries the current text of
\* the template, resolved for the attachment's own principal.
C23_AttachmentsCarryTemplateText ==
    \A s \in DOMAIN policies : \A pid \in DOMAIN policies[s] :
        LET pol == policies[s][pid]
        IN  HasTemplate(s, pol.templateID)
            => pol.cedarText = resolvePrincipal(StoreTemplates(s)[pol.templateID].statement,
                                                pol.principal)

\* C30: the query of an IsAuthorized call is evaluated by cedar-agent on the
\* policies the store holds, all changes to the store having completed
\* before the call started.
C30_QueryOnSyncedPolicies ==
    [][(At(Caller, "Authorize", "query") /\ procs'[Caller] # procs[Caller])
       => agent = PolicyList(procs[Caller].storeId)]_vars

\* ------------------------------------------------------------------------
\* The registry lock.  Account "11" has the policy store "s1" with the
\* template "t1".  Request r1 reads the template (GET /policies/t1) or
\* attaches it to u1; request r2 updates its text.
\* ------------------------------------------------------------------------
RegistryNext ==
    \/ GetPolicyStart(Caller, "11", "t1")
    \/ AttachPolicyStart(Caller, "11", "t1", PrincipalEntity("u1"))
    \/ \E text \in CedarTexts : UpdatePolicyStart(Operator, "11", "t1", text)
    \/ \E p \in Procs : ResolveStore(p)
    \/ GetPolicyTemplate(Caller)
    \/ GetPolicyTemplateRead(Caller)
    \/ Holding(Operator) = "" /\ CreatePolicyCheckTemplate(Caller)
    \/ Holding(Operator) = "" /\ CreatePolicyWrite(Caller)
    \/ UpdatePolicyTemplateLock(Operator)
    \/ UpdatePolicyTemplate(Operator)
    \/ \E p \in Procs : Holding(Operator) # "W" /\ SyncSnapshot(p)
    \/ \E p \in Procs : SyncPutOk(p)
    \/ \E p \in Procs : SyncPutFail(p)
    \/ \E p \in Procs : Finish(p)

RegistrySpec == AuthzInit /\ [][RegistryNext]_vars

\* C31: no request reads the fields of a registry entry while another
\* request is inside an exclusive critical section that writes the same
\* entry.
C31_NoReadOverlapsWrite ==
    \A p, q \in Procs :
        ~(/\ procs[p].pc = "readTemplate"
          /\ Holding(q) = "W"
          /\ procs[q].storeId = procs[p].storeId
          /\ procs[q].policyId = procs[p].policyId)

QueryOf(r) == CedarQuery(r.callerArn, r.groups)

C33_GroupDeletedAfterMembers ==
    [][LET r == procs[Operator]
       IN  /\ groups' # groups
              => /\ At(Operator, "DeleteGroup", "deleteGroup")
                 /\ r.result = {}
                 /\ GroupMember("11", "g1", "u1") \notin members
                 /\ procs'[Operator].pc = "done" /\ procs'[Operator].err = ""
           /\ (/\ r.op = "DeleteGroup" /\ r.pc # "done"
               /\ procs'[Operator].pc = "done" /\ procs'[Operator].err # "")
              => /\ groups' = groups
                 /\ procs'[Operator].err \in {"failed to list group members",
                                               "failed to remove member",
                                               "failed to delete group"}]_vars

\* DeleteGroup has listed both members of g1, removed them and deleted the
\* group.
C33_Witness ==
    /\ procs[Operator].op = "DeleteGroup"
    /\ procs[Operator].pc = "done"
    /\ procs[Operator].err = ""
    /\ procs[Operator].snapshot = {"u1", "u2"}
    /\ Group("11", "g1") \notin groups

\* C34: an Authorize call goes on to the membership lookup only for a
\* non-privileged account whose record it has read and a caller who is no
\* admin of it; only such a call makes a step of the lookup, of the push to
\* cedar-agent or of the query; and a call that returns from one of the
\* first three steps has read no membership and has sent nothing to
\* cedar-agent.
C34_EngineOnlyWhenNeeded ==
    [][\A p \in Procs :
        LET r == procs[p]
            n == procs'[p]
        IN  r.op = "Authorize" /\ n # r
            => /\ (n.pc = "getUserGroups" /\ r.pc # "getUserGroups")
                  => /\ r.pc = "isAdmin"
                     /\ ~IsPrivileged(r.accountId)
                     /\ r.storeId # ""
                     /\ ~IsAdmin(r.accountId, r.callerArn)
               /\ r.pc \in {"getUserGroups", "syncSnapshot", "syncPut", "query"}
                  => ~IsPrivileged(r.accountId) /\ r.storeId # ""
               /\ (r.pc \in {"isPrivileged", "getAccount", "isAdmin"} /\ n.pc = "done")
                  => /\ n.groups = {} /\ n.snapshot = {} /\ ~n.syncErr
                     /\ agent' = agent
                     /\ n.allowed => \/ r.pc = "isPrivileged" /\ IsPrivileged(r.accountId)
                                     \/ r.pc = "isAdmin" /\ IsAdmin(r.accountId, r.callerArn)
                     /\ (r.pc = "getAccount" /\ n.err = "account not provisioned")
                        => AccountStoreGet(r.accountId) = {}]_vars

\* The admin u1 of account 11 has been allowed although cedar-agent holds no
\* policy: the call returned at the admin step.
C34_Witness ==
    /\ procs[Caller].op = "Authorize" /\ procs[Caller].pc = "done"
    /\ procs[Caller].allowed /\ procs[Caller].err = ""
    /\ procs[Caller].accountId = "11"
    /\ IsAdmin("11", procs[Caller].callerArn)
    /\ procs[Caller].groups = {} /\ ~procs[Caller].syncErr
    /\ agent = {}
    /\ DOMAIN StorePolicies("s1") # {}

\* ------------------------------------------------------------------------
\* Account lifecycle without failing calls: the steps of Next in which no
\* DynamoDB or engine call returns an error.  A conditional put refused
\* because the record exists, and a record not found, are answers, not
\* failures.
\* ------------------------------------------------------------------------
LifecycleNext ==
    LET NoCallFails == \A p \in Procs :
            /\ procs'[p].err \in {"", "account already exists", "account not found"}
            /\ ~procs'[p].engineErr
    IN  \/ \E p \in Procs, a \in LifecycleAccounts, priv \in BOOLEAN :
                EnableAccountStart(p, a, priv)
        \/ \E p \in Procs : EnableAccountCreatePolicyStore(p) /\ NoCallFails
        \/ \E p \in Procs : EnableAccountPutSchema(p) /\ NoCallFails
        \/ \E p \in Procs : EnableAccountCreateAccount(p) /\ NoCallFails
        \/ \E p \in Procs : EnableAccountCleanup(p) /\ NoCallFails
        \/ \E p \in Procs, a \in LifecycleAccounts : DisableAccountStart(p, a)
        \/ \E p \in Procs : DisableAccountGet(p) /\ NoCallFails
        \/ \E p \in Procs : DisableAccountDeletePolicyStore(p) /\ NoCallFails
        \/ \E p \in Procs : DisableAccountDelete(p) /\ NoCallFails
        \/ \E p \in Procs : Finish(p)

LifecycleSpec == Init /\ [][LifecycleNext]_vars

\* no request is being served
Quiescent == \A p \in Procs : procs[p].pc \in {"idle", "done"}

\* C36: in every quiescent state each policy store registered in the engine
\* is the policyStoreId of exactly one account record.
C36_StoreHasOneAccount ==
    Quiescent
    => \A s \in DOMAIN templates \cup DOMAIN policies :
          Cardinality({a \in accounts : a.policyStoreId = s}) = 1

\* ------------------------------------------------------------------------
\* Disabling a tenant.  Account "11" has the policy store "s1" with the
\* template "t1" and the group g1.  While the account is enabled and no
\* lifecycle call is being served, u1 is made admin and u2 member of g1.
\* Request r2 disables the account and enables it again; request r1 creates
\* a policy or an attachment under the account.
\* ------------------------------------------------------------------------
DisableNext ==
    \/ AccountStoreExists("11") /\ procs[Operator] = Idle /\ AddAdmin("11", "u1")
    \/ AccountStoreExists("11") /\ procs[Operator] = Idle
            /\ AddGroupMember("11", "g1", "u2")
    \/ DisableAccountStart(Operator, "11")
    \/ DisableAccountGet(Operator)
    \/ DisableAccountDeletePolicyStore(Operator)
    \/ DisableAccountDelete(Operator)
    \/ EnableAccountStart(Operator, "11", FALSE)
    \/ EnableAccountCreatePolicyStore(Operator)
    \/ EnableAccountPutSchema(Operator)
    \/ EnableAccountCreateAccount(Operator)
    \/ EnableAccountCleanup(Operator)
    \/ CreatePolicyStart(Caller, "11", PermitText)
    \/ AttachPolicyStart(Caller, "11", "t1", PrincipalEntity("u1"))
    \/ ResolveStore(Caller)
    \/ CreatePolicyTemplate(Caller)
    \/ CreatePolicyCheckTemplate(Caller)
    \/ CreatePolicyWrite(Caller)
    \/ SyncSnapshot(Caller)
    \/ SyncPutOk(Caller)
    \/ \E p \in Procs : Finish(p)

DisableSpec == AuthzInit /\ [][DisableNext]_vars

\* C37: a policy store that is not registered in the engine gets no template
\* and no attachment: a store id that appears in the registry appears empty.
C37_NothingCreatedInDeletedStore ==
    [][/\ \A s \in DOMAIN templates' : s \notin DOMAIN templates => templates'[s] = <<>>
       /\ \A s \in DOMAIN policies' : s \notin DOMAIN policies => policies'[s] = <<>>]_vars

\* C38: when the record of an account is created, no admin, group or
\* membership row is stored under the account.
C38_EnabledAccountStartsEmpty ==
    [][\A a \in AccountIds :
        (~AccountStoreExists(a) /\ \E x \in accounts' : x.accountId = a)
        => /\ AdminStoreList(a) = {}
           /\ GroupStoreList(a) = {}
           /\ {m \in members : m.accountId = a} = {}]_vars

\* C39: a membership row is written only for a group that has a record in
\* the same account when the row is written.
C39_MemberRowNeedsGroup ==
    [][\A m \in members' \ members :
            Group(m.accountId, m.groupId) \in groups]_vars

\* ------------------------------------------------------------------------
\* The keys of the group-members table.  Account ids, group ids and member
\* ARNs are drawn from identifiers with and without '#'; memberships are
\* added and removed and both queries are made.
\* ------------------------------------------------------------------------
KeyIds == {"a", "a#a"}

KeyNext ==
    \/ \E a \in KeyIds, g \in KeyIds, m \in KeyIds : AddGroupMember(a, g, m)
    \/ \E a \in KeyIds, g \in KeyIds, m \in KeyIds : RemoveGroupMember(a, g, m)
    \/ \E a \in KeyIds, g \in KeyIds : ListGroupMembers(Caller, a, g)
    \/ \E a \in KeyIds, m \in KeyIds : UserGroups(Caller, a, m)
    \/ Finish(Caller)

KeySpec == Init /\ [][KeyNext]_vars

\* C40: the prefix query for group g under account a returns only rows of
\* group g, the index query for member m under account a only rows of a and
\* m, and no two rows of the table share the row key (accountId,
\* groupId#memberArn) or the index key (accountId#memberArn, groupId).
C40_KeysInjective ==
    /\ \A a \in KeyIds, g \in KeyIds :
          \A m \in ListGroupMembersItems(a, g) : m.groupId = g
    /\ \A a \in KeyIds, m \in KeyIds :
          \A x \in GetUserGroupsItems(a, m) : x.accountId = a /\ x.memberArn = m
    /\ \A x, y \in members :
          x # y => /\ <<x.accountId, x.sk>> # <<y.accountId, y.sk>>
                   /\ <<x.gsi, x.groupId>> # <<y.gsi, y.groupId>>

====
